---- MODULE Spec2Model ----
(***************************************************************************)
(* Harvest-window prediction of the fielder python engine.                 *)
(*                                                                         *)
(* A request is drawn in Init; one action per handler computes the whole   *)
(* response.  Dates are day numbers counted from Jan 1 of EpochYear with   *)
(* the Gregorian leap rule, so date(y, m, d), timedelta and tm_yday are    *)
(* integer arithmetic.  GDD thresholds that the code divides by 4 are kept *)
(* in quarter-GDD units (suffix 4), daily rates in tenths of a GDD         *)
(* (suffix 10), so every comparison the code makes on floats is made here  *)
(* on exact integers.                                                      *)
(***************************************************************************)
EXTENDS Integers, Sequences, FiniteSets, TLC

VARIABLES pc, req, resp

vars == <<pc, req, resp>>

-----------------------------------------------------------------------------
(* Bounds of the model *)

\* first and last calendar year "today" is drawn from (2024 is a leap year)
FirstYear == 2024
NumYears == 2
\* largest number of days missing from the observation list
MaxGap == 45

-----------------------------------------------------------------------------
(* datetime.date, datetime.timedelta *)

EpochYear == 2020

IsLeap(y) == (y % 4 = 0) /\ ((y % 100 # 0) \/ (y % 400 = 0))

LeapsBefore(y) == ((y - 1) \div 4) - ((y - 1) \div 100) + ((y - 1) \div 400)

\* date(y, 1, 1)
Jan1(y) == 365 * (y - EpochYear) + LeapsBefore(y) - LeapsBefore(EpochYear)

\* days of the year before the first of month m (m = 13: length of the year)
DaysBeforeMonth(y, m) ==
    LET cum == <<0, 31, 59, 90, 120, 151, 181, 212, 243, 273, 304, 334, 365>>
    IN  cum[m] + (IF m > 2 /\ IsLeap(y) THEN 1 ELSE 0)

\* date(y, m, d)
DateOf(y, m, d) == Jan1(y) + DaysBeforeMonth(y, m) + d - 1

\* date.year: dt \div 366 is the year or the year before, for dates within
\* a century of the epoch
YearOf(dt) == LET y0 == EpochYear + (dt \div 366)
              IN  IF dt >= Jan1(y0 + 1) THEN y0 + 1 ELSE y0

\* date.timetuple().tm_yday
YDay(dt) == dt - Jan1(YearOf(dt)) + 1

\* date.month
MonthOf(dt) == LET y == YearOf(dt)
                   yd == dt - Jan1(y) + 1
               IN  CHOOSE m \in 1..12 :
                      DaysBeforeMonth(y, m) < yd /\ yd <= DaysBeforeMonth(y, m + 1)

\* int(a / b) for b > 0: truncation toward zero
IntDiv(a, b) == IF a >= 0 THEN a \div b ELSE -((-a) \div b)

\* the days "today" is drawn from
Days == Jan1(FirstYear)..(Jan1(FirstYear + NumYears) - 1)

-----------------------------------------------------------------------------
(* Static tables read by /predict *)

\* US_GROWING_REGIONS: viable_crops, state and latitude (tenths of a degree)
US_GROWING_REGIONS ==
    [ indian_river      |-> [viable_crops |-> {"navel_orange", "grapefruit", "tangerine", "valencia"},
                             state |-> "FL", latitude10 |-> 276],
      central_florida   |-> [viable_crops |-> {"navel_orange", "strawberry", "blueberry"},
                             state |-> "FL", latitude10 |-> 285],
      south_florida     |-> [viable_crops |-> {"mango", "tropical_fruits"},
                             state |-> "FL", latitude10 |-> 255],
      georgia_piedmont  |-> [viable_crops |-> {"peach", "blueberry", "pecan"},
                             state |-> "GA", latitude10 |-> 328],
      california_coastal |-> [viable_crops |-> {"strawberry", "apple"},
                             state |-> "CA", latitude10 |-> 369],
      pacific_nw_yakima |-> [viable_crops |-> {"apple", "cherry", "sweet_cherry", "pear"},
                             state |-> "WA", latitude10 |-> 466] ]

RegionIds == DOMAIN US_GROWING_REGIONS

\* get_region_harvest_type: region_mapping.get(region_id, "default")
get_region_harvest_type(region_id) ==
    CASE region_id \in {"indian_river", "central_florida", "south_florida"} -> "florida"
      [] region_id = "california_coastal" -> "california"
      [] region_id = "pacific_nw_yakima" -> "washington"
      [] region_id = "georgia_piedmont" -> "georgia"
      [] OTHER -> "default"

\* CROP_PHENOLOGY rows: bloom (month, day), GDD thresholds, source
CROP_PHENOLOGY ==
    [ navel_orange |-> [ florida |->
          [bloom |-> <<3, 15>>, gdd_to_maturity |-> 5100, gdd_to_peak |-> 6100,
           gdd_window |-> 2000, source |-> "UF/IFAS"] ],
      peach |-> [ georgia |->
          [bloom |-> <<3, 15>>, gdd_to_maturity |-> 1800, gdd_to_peak |-> 2000,
           gdd_window |-> 400, source |-> "UGA Extension"] ],
      apple |-> [ washington |->
          [bloom |-> <<4, 20>>, gdd_to_maturity |-> 2000, gdd_to_peak |-> 2400,
           gdd_window |-> 600, source |-> "WSU Extension"] ],
      strawberry |-> [ florida |->
          [bloom |-> <<10, 1>>, gdd_to_maturity |-> 660, gdd_to_peak |-> 1485,
           gdd_window |-> 1400, source |-> "UF/IFAS - Plant City region"],
                       california |->
          [bloom |-> <<2, 1>>, gdd_to_maturity |-> 900, gdd_to_peak |-> 1100,
           gdd_window |-> 800, source |-> "UC Davis"] ] ]

\* get_gdd_targets: no modelled crop outside CROP_PHENOLOGY is in
\* CROP_GDD_TARGETS, so the lookup returns its default values
get_gdd_targets(crop_id) ==
    [gdd_to_maturity |-> 1800, gdd_to_peak |-> 2100, gdd_window |-> 200]

\* get_crop_phenology(crop_id, region_id)
get_crop_phenology(crop_id, region_id) ==
    LET harvest_type == get_region_harvest_type(region_id)
    IN  IF crop_id \in DOMAIN CROP_PHENOLOGY
        THEN LET crop_data == CROP_PHENOLOGY[crop_id]
             IN  IF harvest_type \in DOMAIN crop_data
                 THEN crop_data[harvest_type]
                 ELSE crop_data[CHOOSE k \in DOMAIN crop_data : TRUE]
        ELSE LET targets == get_gdd_targets(crop_id)
             IN  [bloom |-> <<4, 1>>,
                  gdd_to_maturity |-> targets.gdd_to_maturity,
                  gdd_to_peak |-> targets.gdd_to_peak,
                  gdd_window |-> targets.gdd_window,
                  source |-> "Generic defaults"]

\* TYPICAL_BLOOM_DATES rows, by region type
TYPICAL_BLOOM_DATES ==
    [ navel_orange |-> [south |-> <<3, 15>>, default |-> <<3, 10>>],
      peach        |-> [south |-> <<3, 1>>,  default |-> <<4, 1>>],
      apple        |-> [north |-> <<5, 1>>,  west |-> <<4, 20>>, default |-> <<4, 15>>],
      strawberry   |-> [south |-> <<10, 1>>, default |-> <<4, 1>>] ]

\* get_region_type(region_id)
get_region_type(region_id) ==
    IF region_id \notin RegionIds THEN "default"
    ELSE LET region == US_GROWING_REGIONS[region_id]
         IN  IF region.state \in {"FL", "TX"} \/ region.latitude10 < 320 THEN "south"
             ELSE IF region.state \in {"CA", "OR", "WA"} THEN "west"
             ELSE IF region.latitude10 > 420 THEN "north"
             ELSE "default"

\* get_typical_bloom_date(crop_id, region_id, year)
get_typical_bloom_date(crop_id, region_id, year) ==
    LET bloom_info == IF crop_id \in DOMAIN TYPICAL_BLOOM_DATES
                      THEN TYPICAL_BLOOM_DATES[crop_id]
                      ELSE [default |-> <<4, 15>>]
        region_type == get_region_type(region_id)
        md == IF region_type \in DOMAIN bloom_info
              THEN bloom_info[region_type]
              ELSE bloom_info.default
    IN  DateOf(year, md[1], md[2])

\* storage_crops in predict
storage_crops == {"apple", "pear"}

-----------------------------------------------------------------------------
(* Weather collaborator outcomes *)

\* What weather_service.provider.get_historical does for one request:
\*   kind "obs"   - a non-empty observation list: one observation per day of
\*                  [reference date, today] except `gap` days whose
\*                  temperatures were None (skipped by the provider), with a
\*                  mean of rate10/10 GDD per observation;
\*   kind "empty" - an empty list; get_climatology then answers clim10/10
\*                  (150 is the handler's default when the key is absent);
\*   kind "raise" - the fetch raises.
Gaps == {0, MaxGap}
ObsRates10 == {0, 150, 220}
ClimRates10 == {80, 150}

Weathers ==
    [kind : {"obs"}, gap : Gaps, rate10 : ObsRates10, clim10 : {150}]
    \cup [kind : {"empty"}, gap : {0}, rate10 : {0}, clim10 : ClimRates10]
    \cup [kind : {"raise"}, gap : {0}, rate10 : {0}, clim10 : {150}]

\* len(observations) for the inclusive range [start, today]
ObsCount(start, today, gap) ==
    IF (today - start) + 1 > gap THEN (today - start) + 1 - gap ELSE 1

-----------------------------------------------------------------------------
(* /predict *)

\* bloom date for the current growing season (predict, "Determine bloom date")
SelectBloomDateAlt(today, this_year_bloom, last_year_bloom) ==
    this_year_bloom

SelectBloomDate(today, this_year_bloom, last_year_bloom) ==
    IF this_year_bloom > today /\ (today - last_year_bloom) < 450
    THEN last_year_bloom
    ELSE this_year_bloom

\* the five milestone offsets in days from the reference date, for GDD
\* thresholds in quarter-GDD units and a rate in tenths: int(gdd / avg)
DaysToAlt(gdd4, rate10) == IntDiv(gdd4 * 10 + 4 * rate10 - 1, 4 * rate10)

DaysTo(gdd4, rate10) == IntDiv(gdd4 * 10, 4 * rate10)

\* harvest_window message of predict, as a label
PredictMessage(f, today, showing_next_season, harvest_start_date, peak_center_date) ==
    IF f.is_off_season THEN
        IF showing_next_season THEN
            (IF harvest_start_date - today <= 60 THEN "next_season_in_days"
             ELSE "next_season_month")
        ELSE IF today < harvest_start_date THEN
            (IF harvest_start_date - today <= 30 THEN "season_starts_in_days"
             ELSE "season_date")
        ELSE "off_season"
    ELSE IF f.is_at_peak THEN "at_peak"
    ELSE IF f.is_in_optimal_window THEN "in_optimal_window"
    ELSE IF f.is_past_optimal THEN "past_optimal"
    ELSE IF f.is_harvestable THEN
        (IF today < peak_center_date THEN "harvestable_peak_in_days"
         ELSE "harvestable")
    ELSE "not_yet"

\* the GDD thresholds in quarter-GDD units: maturity, optimal start =
\* peak - window/4, peak, optimal end = peak + window/4, harvest end =
\* peak + window/2
GddThresholds4Alt(gdd_to_maturity, gdd_to_peak, gdd_window) ==
    [ maturity4 |-> 4 * gdd_to_maturity,
      optimal_start4 |-> 4 * gdd_to_maturity
                         + (4 * gdd_to_peak + 2 * gdd_window - 4 * gdd_to_maturity) \div 4,
      peak4 |-> 4 * gdd_to_peak,
      optimal_end4 |-> 4 * gdd_to_peak + 2 * gdd_window
                       - (4 * gdd_to_peak + 2 * gdd_window - 4 * gdd_to_maturity) \div 4,
      harvest_end4 |-> 4 * gdd_to_peak + 2 * gdd_window ]

GddThresholds4(gdd_to_maturity, gdd_to_peak, gdd_window) ==
    [ maturity4 |-> 4 * gdd_to_maturity,
      optimal_start4 |-> 4 * gdd_to_peak - gdd_window,
      peak4 |-> 4 * gdd_to_peak,
      optimal_end4 |-> 4 * gdd_to_peak + gdd_window,
      harvest_end4 |-> 4 * gdd_to_peak + 2 * gdd_window ]

\* season flags of predict, from accumulated GDD (tenths) against the
\* thresholds; both sides are scaled to fortieths of a GDD, and 0.7 * m,
\* 0.97 * p, 1.03 * p are compared as exact fractions
PredictFlagsAlt(current_gdd10, th) ==
    LET g40 == 4 * current_gdd10
        is_off_season == (10 * g40 < 7 * 10 * th.maturity4) \/ (g40 > 10 * th.harvest_end4)
    IN  [ is_off_season |-> is_off_season,
          is_harvestable |-> (g40 >= 10 * th.maturity4),
          is_in_optimal_window |->
              (10 * th.optimal_start4 <= g40 /\ g40 <= 10 * th.optimal_end4) /\ ~is_off_season,
          is_at_peak |->
              (97 * 10 * th.peak4 <= 100 * g40 /\ 100 * g40 <= 103 * 10 * th.peak4)
              /\ ~is_off_season,
          is_past_optimal |-> g40 > 10 * th.optimal_end4 /\ g40 <= 10 * th.harvest_end4 ]

PredictFlags(current_gdd10, th) ==
    LET g40 == 4 * current_gdd10
        is_off_season == (10 * g40 < 7 * 10 * th.maturity4) \/ (g40 > 10 * th.harvest_end4)
    IN  [ is_off_season |-> is_off_season,
          is_harvestable |-> (g40 >= 10 * th.maturity4) /\ ~is_off_season,
          is_in_optimal_window |->
              (10 * th.optimal_start4 <= g40 /\ g40 <= 10 * th.optimal_end4) /\ ~is_off_season,
          is_at_peak |->
              (97 * 10 * th.peak4 <= 100 * g40 /\ 100 * g40 <= 103 * 10 * th.peak4)
              /\ ~is_off_season,
          is_past_optimal |-> g40 > 10 * th.optimal_end4 /\ g40 <= 10 * th.harvest_end4 ]

\* the five dates projected from a reference date (predict, "PROJECT HARVEST
\* DATES FROM GDD"); rate10 = 0 takes the fixed-offset fallback
ProjectDates(ref, th, rate10) ==
    IF rate10 > 0
    THEN [ harvest_start_date |-> ref + DaysTo(th.maturity4, rate10),
           optimal_start_date |-> ref + DaysTo(th.optimal_start4, rate10),
           peak_center_date |-> ref + DaysTo(th.peak4, rate10),
           optimal_end_date |-> ref + DaysTo(th.optimal_end4, rate10),
           harvest_end_date |-> ref + DaysTo(th.harvest_end4, rate10) ]
    ELSE [ harvest_start_date |-> ref + 200,
           optimal_start_date |-> ref + 230,
           peak_center_date |-> ref + 250,
           optimal_end_date |-> ref + 270,
           harvest_end_date |-> ref + 300 ]

\* current_gdd (tenths), avg_daily_gdd (tenths) and the data-source
\* annotation of predict ("CALCULATE GDD FROM ACTUAL WEATHER DATA")
PredictWeather(bloom_date, today, w) ==
    IF bloom_date < today THEN
        IF w.kind = "obs" THEN
            LET n == ObsCount(bloom_date, today, w.gap)
            IN  [current_gdd10 |-> n * w.rate10, avg_daily_gdd10 |-> w.rate10,
                 data_source |-> "open_meteo"]
        ELSE IF w.kind = "empty" THEN
            [current_gdd10 |-> (today - bloom_date) * w.clim10,
             avg_daily_gdd10 |-> w.clim10, data_source |-> "climatology_estimate"]
        ELSE
            [current_gdd10 |-> (today - bloom_date) * 200,
             avg_daily_gdd10 |-> 200, data_source |-> "weather_unavailable"]
    ELSE [current_gdd10 |-> 0, avg_daily_gdd10 |-> 200, data_source |-> "awaiting_bloom"]

\* the roll-forward condition of predict ("PROJECT NEXT SEASON")
RollForward(is_off_season, today, harvest_end_date, crop_id) ==
    is_off_season /\ today > harvest_end_date
    /\ (today - harvest_end_date) >= 30 /\ crop_id \notin storage_crops

ErrorResponse(op, msg) == [op |-> op, error |-> msg]

\* the whole /predict handler: request r -> JSON response
predict(r) ==
    IF r.region = "" \/ r.crop = "" THEN ErrorResponse("predict", "Missing required fields")
    ELSE IF r.region \notin RegionIds THEN ErrorResponse("predict", "Unknown region")
    ELSE IF r.crop \notin US_GROWING_REGIONS[r.region].viable_crops
         THEN ErrorResponse("predict", "not grown in region")
    ELSE
    LET today == r.today
        current_year == YearOf(today)
        phenology == get_crop_phenology(r.crop, r.region)
        gdd_to_maturity == phenology.gdd_to_maturity
        gdd_to_peak == phenology.gdd_to_peak
        gdd_window == phenology.gdd_window
        bloom_date == SelectBloomDate(today,
                          DateOf(current_year, phenology.bloom[1], phenology.bloom[2]),
                          DateOf(current_year - 1, phenology.bloom[1], phenology.bloom[2]))
        wx == PredictWeather(bloom_date, today, r.weather)
        th == GddThresholds4(gdd_to_maturity, gdd_to_peak, gdd_window)
        f == PredictFlags(wx.current_gdd10, th)
        d0 == ProjectDates(bloom_date, th, wx.avg_daily_gdd10)
        showing_next_season == RollForward(f.is_off_season, today, d0.harvest_end_date, r.crop)
        next_year == IF MonthOf(today) >= MonthOf(bloom_date)
                     THEN YearOf(today) + 1 ELSE YearOf(today)
        next_bloom == get_typical_bloom_date(r.crop, r.region, next_year)
        d == IF showing_next_season
             THEN ProjectDates(next_bloom, th, wx.avg_daily_gdd10)
             ELSE d0
    IN  [ op |-> "predict", error |-> "",
          prediction_mode |-> "crop",
          plantings |-> << [
              reference_date |-> bloom_date,
              bloom_date |-> IF showing_next_season THEN next_bloom ELSE bloom_date,
              mode |-> IF wx.avg_daily_gdd10 > 0 THEN "gdd" ELSE "fallback",
              gdd_to_maturity |-> gdd_to_maturity,
              gdd_to_peak |-> gdd_to_peak,
              gdd_window |-> gdd_window,
              gdd4 |-> th,
              avg_daily_gdd10 |-> wx.avg_daily_gdd10,
              current_gdd10 |-> wx.current_gdd10,
              first_harvest_end_date |-> d0.harvest_end_date,
              harvest_start_date |-> d.harvest_start_date,
              optimal_start_date |-> d.optimal_start_date,
              peak_center_date |-> d.peak_center_date,
              optimal_end_date |-> d.optimal_end_date,
              harvest_end_date |-> d.harvest_end_date,
              is_off_season |-> f.is_off_season,
              is_harvestable |-> f.is_harvestable,
              is_in_optimal_window |-> f.is_in_optimal_window,
              is_at_peak |-> f.is_at_peak,
              is_past_optimal |-> f.is_past_optimal,
              showing_next_season |-> showing_next_season,
              harvest_window |-> PredictMessage(f, today, showing_next_season,
                                                d.harvest_start_date, d.peak_center_date),
              data_source |-> <<phenology.source, wx.data_source>> ] >> ]

-----------------------------------------------------------------------------
(* Research database read by /predict/cultivar *)

\* CultivarResearch rows (0 stands for None).  The first three rows are
\* DataLoader's; tight_target is a row outside the loader's corpus whose GDD
\* target satisfies 0 < gdd_to_maturity < gdd_to_peak with maturity within
\* 3% of peak.
Cultivars ==
    [ washington_navel   |-> [crop_type |-> "navel_orange", gdd_to_maturity |-> 2000,
                              gdd_to_peak |-> 2300, days_to_maturity |-> 270],
      florida_brilliance |-> [crop_type |-> "strawberry", gdd_to_maturity |-> 650,
                              gdd_to_peak |-> 800, days_to_maturity |-> 55],
      albion             |-> [crop_type |-> "strawberry", gdd_to_maturity |-> 0,
                              gdd_to_peak |-> 0, days_to_maturity |-> 90],
      tight_target       |-> [crop_type |-> "peach", gdd_to_maturity |-> 980,
                              gdd_to_peak |-> 1000, days_to_maturity |-> 0] ]

\* RegionalBloomData rows keyed (cultivar_id, region_id) (0 stands for None).
\* The first three rows are DataLoader's; the tight_target rows carry no
\* historical window, and a historical window without peak days.
RegionalData ==
    [ key \in { <<"washington_navel", "indian_river">>,
                <<"florida_brilliance", "central_florida">>,
                <<"albion", "california_coastal">>,
                <<"tight_target", "indian_river">>,
                <<"tight_target", "central_florida">> } |->
      CASE key = <<"washington_navel", "indian_river">> ->
             [avg_bloom_start_doy |-> 75, avg_bloom_peak_doy |-> 85,
              historical_harvest_start_doy |-> 305, historical_harvest_end_doy |-> 31,
              historical_peak_start_doy |-> 335, historical_peak_end_doy |-> 365,
              avg_gdd_per_day10 |-> 115]
        [] key = <<"florida_brilliance", "central_florida">> ->
             [avg_bloom_start_doy |-> 274, avg_bloom_peak_doy |-> 281,
              historical_harvest_start_doy |-> 319, historical_harvest_end_doy |-> 60,
              historical_peak_start_doy |-> 349, historical_peak_end_doy |-> 31,
              avg_gdd_per_day10 |-> 140]
        [] key = <<"albion", "california_coastal">> ->
             [avg_bloom_start_doy |-> 60, avg_bloom_peak_doy |-> 90,
              historical_harvest_start_doy |-> 135, historical_harvest_end_doy |-> 305,
              historical_peak_start_doy |-> 166, historical_peak_end_doy |-> 273,
              avg_gdd_per_day10 |-> 80]
        [] key = <<"tight_target", "indian_river">> ->
             [avg_bloom_start_doy |-> 75, avg_bloom_peak_doy |-> 0,
              historical_harvest_start_doy |-> 0, historical_harvest_end_doy |-> 0,
              historical_peak_start_doy |-> 0, historical_peak_end_doy |-> 0,
              avg_gdd_per_day10 |-> 0]
        [] key = <<"tight_target", "central_florida">> ->
             [avg_bloom_start_doy |-> 0, avg_bloom_peak_doy |-> 0,
              historical_harvest_start_doy |-> 152, historical_harvest_end_doy |-> 157,
              historical_peak_start_doy |-> 0, historical_peak_end_doy |-> 0,
              avg_gdd_per_day10 |-> 0] ]

\* python `a or b` on numbers
OrElse(a, b) == IF a # 0 THEN a ELSE b

\* doy_to_date(doy, ref_year) local to predict_cultivar
doy_to_date(doy, ref_year) ==
    IF doy <= 0 THEN Jan1(ref_year - 1) + (doy + 365) - 1
    ELSE Jan1(ref_year) + doy - 1

-----------------------------------------------------------------------------
(* /predict/cultivar *)

\* harvest window of the current relevant season from day-of-year statistics
\* (predict_cultivar, "Determine which year's season we're in")
SeasonWindowAlt(today, harvest_start_doy, harvest_end_doy) ==
    [ harvest_start_date |-> doy_to_date(harvest_start_doy, YearOf(today)),
      harvest_end_date |-> doy_to_date(harvest_end_doy,
          IF harvest_end_doy < harvest_start_doy THEN YearOf(today) + 1 ELSE YearOf(today)) ]

SeasonWindow(today, harvest_start_doy, harvest_end_doy) ==
    IF harvest_end_doy < harvest_start_doy THEN
        IF YDay(today) >= harvest_start_doy THEN
            [ harvest_start_date |-> doy_to_date(harvest_start_doy, YearOf(today)),
              harvest_end_date |-> doy_to_date(harvest_end_doy, YearOf(today) + 1) ]
        ELSE IF YDay(today) <= harvest_end_doy THEN
            [ harvest_start_date |-> doy_to_date(harvest_start_doy, YearOf(today) - 1),
              harvest_end_date |-> doy_to_date(harvest_end_doy, YearOf(today)) ]
        ELSE
            [ harvest_start_date |-> doy_to_date(harvest_start_doy, YearOf(today)),
              harvest_end_date |-> doy_to_date(harvest_end_doy, YearOf(today) + 1) ]
    ELSE
        LET season_year == IF YDay(today) > harvest_end_doy
                           THEN YearOf(today) + 1 ELSE YearOf(today)
        IN  [ harvest_start_date |-> doy_to_date(harvest_start_doy, season_year),
              harvest_end_date |-> doy_to_date(harvest_end_doy, season_year) ]

\* the five dates in historical-lookup mode
HistoricalDates(today, rd) ==
    LET harvest_start_doy == rd.historical_harvest_start_doy
        harvest_end_doy == rd.historical_harvest_end_doy
        win == SeasonWindow(today, harvest_start_doy, harvest_end_doy)
        hs == win.harvest_start_date
        he == win.harvest_end_date
    IN  IF rd.historical_peak_start_doy # 0 /\ rd.historical_peak_end_doy # 0 THEN
            LET peak_start_doy == rd.historical_peak_start_doy
                peak_end_doy == rd.historical_peak_end_doy
                os == IF harvest_end_doy < harvest_start_doy
                      THEN (IF peak_start_doy >= harvest_start_doy
                            THEN doy_to_date(peak_start_doy, YearOf(hs))
                            ELSE doy_to_date(peak_start_doy, YearOf(he)))
                      ELSE doy_to_date(peak_start_doy, YearOf(hs))
                oe == IF harvest_end_doy < harvest_start_doy
                      THEN (IF peak_end_doy >= harvest_start_doy
                            THEN doy_to_date(peak_end_doy, YearOf(hs))
                            ELSE doy_to_date(peak_end_doy, YearOf(he)))
                      ELSE doy_to_date(peak_end_doy, YearOf(hs))
            IN  [ harvest_start_date |-> hs, optimal_start_date |-> os,
                  \* timedelta / 2 keeps whole days rounded down
                  peak_center_date |-> os + ((oe - os) \div 2),
                  optimal_end_date |-> oe, harvest_end_date |-> he ]
        ELSE
            LET wd == he - hs
                window_days == IF wd < 0 THEN wd + 365 ELSE wd
                optimal_offset == window_days \div 4
            IN  [ harvest_start_date |-> hs,
                  optimal_start_date |-> hs + optimal_offset,
                  peak_center_date |-> hs + (window_days \div 2),
                  optimal_end_date |-> he - optimal_offset,
                  harvest_end_date |-> he ]

\* the five dates of one planting: historical lookup, GDD projection, or the
\* days-to-maturity fallback when the average daily GDD is 0
CultivarDates(use_historical_dates, today, planting_date, rd, days_to_maturity, th, rate10) ==
    IF use_historical_dates THEN HistoricalDates(today, rd)
    ELSE IF rate10 > 0
    THEN ProjectDates(planting_date, th, rate10)
    ELSE LET hs == planting_date + OrElse(days_to_maturity, 120)
         IN  [ harvest_start_date |-> hs, optimal_start_date |-> hs + 15,
               peak_center_date |-> hs + 30, optimal_end_date |-> hs + 45,
               harvest_end_date |-> hs + 60 ]

\* season flags of predict_cultivar, from today against the five dates
CultivarFlags(today, d) ==
    [ is_off_season |-> today < d.harvest_start_date \/ today > d.harvest_end_date,
      is_harvestable |-> d.harvest_start_date <= today /\ today <= d.harvest_end_date,
      is_in_optimal_window |-> d.optimal_start_date <= today /\ today <= d.optimal_end_date,
      is_at_peak |-> (d.peak_center_date - 3) <= today /\ today <= (d.peak_center_date + 3),
      is_past_optimal |-> today > d.optimal_end_date /\ today <= d.harvest_end_date ]

\* harvest_window message of predict_cultivar, as a label
CultivarMessage(f, today, harvest_start_date, peak_center_date) ==
    IF f.is_off_season THEN
        IF today < harvest_start_date THEN
            (IF harvest_start_date - today <= 30 THEN "season_starts_in_days"
             ELSE "season_date")
        ELSE "off_season"
    ELSE IF f.is_at_peak THEN "at_peak"
    ELSE IF f.is_in_optimal_window THEN "in_optimal_window"
    ELSE IF f.is_past_optimal THEN "past_optimal"
    ELSE IF f.is_harvestable THEN
        (IF today < peak_center_date THEN "harvestable_peak_in_days"
         ELSE "harvestable")
    ELSE "not_yet"

\* current_gdd (tenths), avg_daily_gdd (tenths) and annotation for one planting
CultivarWeather(planting_date, today, w, regional_rate10) ==
    IF planting_date < today THEN
        IF w.kind = "obs" THEN
            LET n == ObsCount(planting_date, today, w.gap)
            IN  [current_gdd10 |-> n * w.rate10, avg_daily_gdd10 |-> w.rate10,
                 data_source |-> "open_meteo"]
        ELSE IF w.kind = "empty" THEN
            [current_gdd10 |-> (today - planting_date) * regional_rate10,
             avg_daily_gdd10 |-> regional_rate10, data_source |-> "climatology_estimate"]
        ELSE
            [current_gdd10 |-> (today - planting_date) * regional_rate10,
             avg_daily_gdd10 |-> regional_rate10, data_source |-> "weather_unavailable"]
    ELSE [current_gdd10 |-> 0, avg_daily_gdd10 |-> regional_rate10,
          data_source |-> "awaiting_planting"]

\* db.rootstocks ids
Rootstocks == {"carrizo", "c35", "sour_orange"}

\* grower_planting_dates.sort()
SortDates(dates) == SortSeq(dates, LAMBDA a, b : a < b)

\* the prediction for one planting date (body of the loop of predict_cultivar)
PlantingResult(r, cultivar, rd, grower, planting_date, gdd_to_maturity, gdd_to_peak, gdd_window) ==
    LET today == r.today
        regional_rate10 == OrElse(rd.avg_gdd_per_day10, 150)
        wx == CultivarWeather(planting_date, today, r.weather, regional_rate10)
        use_historical_dates ==
            ~grower /\ rd.historical_harvest_start_doy # 0
                    /\ rd.historical_harvest_end_doy # 0
        th == GddThresholds4(gdd_to_maturity, gdd_to_peak, gdd_window)
        d == CultivarDates(use_historical_dates, today, planting_date, rd,
                           cultivar.days_to_maturity, th, wx.avg_daily_gdd10)
        f == CultivarFlags(today, d)
    IN  [ reference_date |-> planting_date,
          bloom_date |-> planting_date,
          mode |-> IF use_historical_dates
                   THEN (IF rd.historical_peak_start_doy # 0 /\ rd.historical_peak_end_doy # 0
                         THEN "historical" ELSE "historical_no_peak")
                   ELSE IF wx.avg_daily_gdd10 > 0 THEN "gdd" ELSE "fallback",
          gdd_to_maturity |-> gdd_to_maturity,
          gdd_to_peak |-> gdd_to_peak,
          gdd_window |-> gdd_window,
          gdd4 |-> th,
          avg_daily_gdd10 |-> wx.avg_daily_gdd10,
          current_gdd10 |-> wx.current_gdd10,
          first_harvest_end_date |-> d.harvest_end_date,
          harvest_start_date |-> d.harvest_start_date,
          optimal_start_date |-> d.optimal_start_date,
          peak_center_date |-> d.peak_center_date,
          optimal_end_date |-> d.optimal_end_date,
          harvest_end_date |-> d.harvest_end_date,
          is_off_season |-> f.is_off_season,
          is_harvestable |-> f.is_harvestable,
          is_in_optimal_window |-> f.is_in_optimal_window,
          is_at_peak |-> f.is_at_peak,
          is_past_optimal |-> f.is_past_optimal,
          showing_next_season |-> FALSE,
          harvest_window |-> CultivarMessage(f, today, d.harvest_start_date,
                                             d.peak_center_date),
          data_source |-> <<"cultivar", wx.data_source>> ]

\* the whole /predict/cultivar handler: request r -> JSON response
predict_cultivar(r) ==
    IF r.cultivar_id = "" \/ r.region = ""
    THEN ErrorResponse("predict_cultivar", "Missing required fields")
    ELSE IF r.region \notin RegionIds
    THEN ErrorResponse("predict_cultivar", "Unknown region")
    ELSE IF r.rootstock_id # "" /\ r.rootstock_id \notin Rootstocks
    THEN ErrorResponse("predict_cultivar", "Unknown rootstock")
    ELSE IF r.cultivar_id \notin DOMAIN Cultivars
    THEN ErrorResponse("predict_cultivar", "Unknown cultivar")
    ELSE IF <<r.cultivar_id, r.region>> \notin DOMAIN RegionalData
    THEN ErrorResponse("predict_cultivar", "No regional data")
    ELSE IF ~r.planting_dates_wellformed
    THEN ErrorResponse("predict_cultivar", "Invalid planting_date format")
    ELSE
    LET today == r.today
        current_year == YearOf(today)
        cultivar == Cultivars[r.cultivar_id]
        rd == RegionalData[<<r.cultivar_id, r.region>>]
        grower_planting_dates == SortDates(r.planting_dates)
        grower == grower_planting_dates # <<>>
        gdd_to_maturity == OrElse(cultivar.gdd_to_maturity, 1000)
        \* int(gdd_to_maturity * 1.15); exact for the default 1000
        gdd_to_peak == OrElse(cultivar.gdd_to_peak, (gdd_to_maturity * 115) \div 100)
        harvest_days0 == rd.historical_harvest_end_doy - rd.historical_harvest_start_doy
        harvest_days == IF harvest_days0 < 0 THEN harvest_days0 + 365 ELSE harvest_days0
        gdd_window ==
            IF grower THEN (gdd_to_peak * 12) \div 100
            ELSE IF rd.historical_harvest_start_doy # 0 /\ rd.historical_harvest_end_doy # 0
            THEN LET w == (harvest_days * OrElse(rd.avg_gdd_per_day10, 150)) \div 20
                 IN  IF w > 100 THEN w ELSE 100
            ELSE (gdd_to_peak * 15) \div 100
        bloom_doy == OrElse(rd.avg_bloom_peak_doy, OrElse(rd.avg_bloom_start_doy, 100))
        bloom_date == SelectBloomDate(today, Jan1(current_year) + bloom_doy - 1,
                                      Jan1(current_year - 1) + bloom_doy - 1)
        planting_dates_to_process ==
            IF grower THEN grower_planting_dates ELSE <<bloom_date>>
    IN  [ op |-> "predict_cultivar", error |-> "",
          prediction_mode |-> IF grower THEN "grower-specific" ELSE "regional-average",
          plantings |->
              [ i \in 1..Len(planting_dates_to_process) |->
                  PlantingResult(r, cultivar, rd, grower, planting_dates_to_process[i],
                                 gdd_to_maturity, gdd_to_peak, gdd_window) ] ]

-----------------------------------------------------------------------------
(* CropPossibilityEngine over SeasonalAvailability *)

\* engine.availability: FLORIDA_NAVEL_AVAILABILITY (Nov 1 - Jan 31, peak
\* Dec 15 - Jan 15) registered for washington_navel in indian_river
EngineAvailability ==
    [ key \in { <<"washington_navel", "indian_river">> } |->
        [ typical_start_month |-> 11, typical_start_day |-> 1,
          typical_end_month |-> 1, typical_end_day |-> 31,
          peak_start_month |-> 12, peak_start_day |-> 15,
          peak_end_month |-> 1, peak_end_day |-> 15 ] ]

\* engine.cultivars: cultivar id -> crop id
EngineCultivars == [ washington_navel |-> "navel_orange" ]

\* engine.crops
EngineCrops == {"navel_orange"}

\* engine.regions: region id -> viable crops
EngineRegions == [ indian_river |-> US_GROWING_REGIONS["indian_river"].viable_crops ]

\* SeasonalAvailability.get_typical_window(year)
get_typical_window(avail, year) ==
    LET end_year == IF avail.typical_end_month >= avail.typical_start_month
                    THEN year ELSE year + 1
    IN  << DateOf(year, avail.typical_start_month, avail.typical_start_day),
           DateOf(end_year, avail.typical_end_month, avail.typical_end_day) >>

\* SeasonalAvailability.get_peak_window(year)
get_peak_window(avail, year) ==
    LET peak_end_year == IF avail.peak_end_month >= avail.peak_start_month
                         THEN year ELSE year + 1
    IN  << DateOf(year, avail.peak_start_month, avail.peak_start_day),
           DateOf(peak_end_year, avail.peak_end_month, avail.peak_end_day) >>

\* the CropAvailability rows both queries build for (cultivar, region) pairs
\* whose window contains as_of_date
InSeasonRows(pairs, as_of_date) ==
    { [ cultivar_id |-> p[1], region_id |-> p[2], in_season |-> TRUE,
        in_peak |-> get_peak_window(EngineAvailability[p], YearOf(as_of_date))[1] <= as_of_date
                    /\ as_of_date <= get_peak_window(EngineAvailability[p], YearOf(as_of_date))[2],
        window_start |-> get_typical_window(EngineAvailability[p], YearOf(as_of_date))[1],
        window_end |-> get_typical_window(EngineAvailability[p], YearOf(as_of_date))[2] ] :
      p \in { q \in pairs :
                /\ q \in DOMAIN EngineAvailability
                /\ get_typical_window(EngineAvailability[q], YearOf(as_of_date))[1] <= as_of_date
                /\ as_of_date <= get_typical_window(EngineAvailability[q], YearOf(as_of_date))[2] } }

\* CropPossibilityEngine.get_in_season(region_id, as_of_date)
get_in_season(r) ==
    [ op |-> "get_in_season", error |-> "",
      results |->
        IF r.region \notin DOMAIN EngineRegions THEN {}
        ELSE InSeasonRows(
               { <<c, r.region>> : c \in { c \in DOMAIN EngineCultivars :
                     /\ EngineCultivars[c] \in EngineRegions[r.region]
                     /\ EngineCultivars[c] \in EngineCrops } },
               r.today) ]

\* CropPossibilityEngine.search_by_crop(crop_id, as_of_date)
search_by_crop(r) ==
    [ op |-> "search_by_crop", error |-> "",
      results |->
        InSeasonRows(
          { <<c, g>> : c \in { c \in DOMAIN EngineCultivars : EngineCultivars[c] = r.crop },
                       g \in { g \in DOMAIN EngineRegions :
                                 r.crop \in EngineRegions[g] /\ r.crop \in EngineCrops } },
          r.today) ]

-----------------------------------------------------------------------------
(* Requests, state machine *)

\* (region, crop) pairs of /predict requests that pass validation
PredictPairs ==
    { <<"indian_river", "navel_orange">>, <<"central_florida", "strawberry">>,
      <<"georgia_piedmont", "peach">>, <<"pacific_nw_yakima", "apple">>,
      <<"south_florida", "tropical_fruits">>, <<"california_coastal", "apple">> }

\* pairs that fail validation: missing field, unknown region, crop not viable
BadPredictPairs ==
    { <<"", "peach">>, <<"atlantis", "peach">>, <<"indian_river", "peach">> }

PredictRequest(t, p, w) ==
    [op |-> "predict", today |-> t, region |-> p[1], crop |-> p[2], weather |-> w]

\* weather outcomes of /predict/cultivar requests (the dates of a planting
\* depend on the mean rate only)
CultivarWeathers == { w \in Weathers : w.gap = 0 /\ w.clim10 = 150 }

\* (cultivar, region) pairs with regional data
CultivarPairs == DOMAIN RegionalData

\* days on which grower-specific requests are made, and the planting dates
\* they name: today - k for k in -MaxAhead..MaxOffset (negative: not planted yet)
GrowerDays == { DateOf(FirstYear, 2, 20), DateOf(FirstYear, 12, 20),
                DateOf(FirstYear + 1, 6, 1) }
MaxAhead == 3
MaxOffset == 120
\* days between the two plantings of a staggered request
Stagger == 14

CultivarRequest(t, p, w, dates, wellformed, rootstock) ==
    [ op |-> "predict_cultivar", today |-> t, cultivar_id |-> p[1], region |-> p[2],
      rootstock_id |-> rootstock, planting_dates |-> dates,
      planting_dates_wellformed |-> wellformed, weather |-> w ]

\* (cultivar, region) pairs that fail validation or lack research data
BadCultivarPairs ==
    { <<"", "indian_river">>, <<"washington_navel", "atlantis">>,
      <<"unknown_cultivar", "indian_river">>, <<"washington_navel", "georgia_piedmont">>,
      <<"florida_brilliance", "indian_river">> }

EngineRequest(op, t, g, c) == [op |-> op, today |-> t, region |-> g, crop |-> c]

\* the requests of the model: every valid request on every day, and the
\* invalid ones on one day
InitRequest ==
    \/ \E t \in Days, p \in PredictPairs, w \in Weathers :
          req = PredictRequest(t, p, w)
    \/ \E p \in BadPredictPairs, w \in { x \in Weathers : x.kind = "raise" } :
          req = PredictRequest(Jan1(FirstYear), p, w)
    \/ \E t \in Days, p \in CultivarPairs, w \in CultivarWeathers :
          req = CultivarRequest(t, p, w, <<>>, TRUE, "")
    \/ \E t \in GrowerDays, p \in CultivarPairs, w \in CultivarWeathers,
          k \in (-MaxAhead)..MaxOffset :
          \/ req = CultivarRequest(t, p, w, <<t - k>>, TRUE, "carrizo")
          \/ req = CultivarRequest(t, p, w, <<t - k + Stagger, t - k>>, TRUE, "")
    \/ \E p \in BadCultivarPairs, w \in { x \in Weathers : x.kind = "raise" } :
          req = CultivarRequest(Jan1(FirstYear), p, w, <<>>, TRUE, "")
    \/ \E w \in { x \in Weathers : x.kind = "raise" }, wf \in BOOLEAN, rs \in {"", "bogus"} :
          req = CultivarRequest(Jan1(FirstYear), <<"washington_navel", "indian_river">>,
                                w, <<>>, wf, rs)
    \/ \E t \in Days, g \in {"indian_river", "central_florida"} :
          req = EngineRequest("get_in_season", t, g, "")
    \/ \E t \in Days, c \in {"navel_orange", "peach"} :
          req = EngineRequest("search_by_crop", t, "", c)

Init ==
    /\ pc = "start"
    /\ InitRequest
    /\ resp = [op |-> "none", error |-> ""]

Predict ==
    /\ pc = "start"
    /\ req.op = "predict"
    /\ resp' = predict(req)
    /\ pc' = "done"
    /\ UNCHANGED req

PredictCultivar ==
    /\ pc = "start"
    /\ req.op = "predict_cultivar"
    /\ resp' = predict_cultivar(req)
    /\ pc' = "done"
    /\ UNCHANGED req

GetInSeason ==
    /\ pc = "start"
    /\ req.op = "get_in_season"
    /\ resp' = get_in_season(req)
    /\ pc' = "done"
    /\ UNCHANGED req

SearchByCrop ==
    /\ pc = "start"
    /\ req.op = "search_by_crop"
    /\ resp' = search_by_crop(req)
    /\ pc' = "done"
    /\ UNCHANGED req

Next ==
    \/ Predict
    \/ PredictCultivar
    \/ GetInSeason
    \/ SearchByCrop

Spec == Init /\ [][Next]_vars

-----------------------------------------------------------------------------
(* Properties *)

\* the per-planting predictions of the response in the current state
PlantingsOf ==
    IF resp.op \in {"predict", "predict_cultivar"} /\ resp.error = ""
    THEN { resp.plantings[i] : i \in DOMAIN resp.plantings }
    ELSE {}

DatesOrdered(p) ==
    /\ p.harvest_start_date <= p.optimal_start_date
    /\ p.optimal_start_date <= p.peak_center_date
    /\ p.peak_center_date <= p.optimal_end_date
    /\ p.optimal_end_date <= p.harvest_end_date

IsNovJanLookup ==
    /\ resp.op = "predict_cultivar" /\ resp.error = ""
    /\ resp.prediction_mode = "regional-average"
    /\ RegionalData[<<req.cultivar_id, req.region>>].historical_harvest_start_doy = 305
    /\ RegionalData[<<req.cultivar_id, req.region>>].historical_harvest_end_doy = 31

\* C2: with historical days 305 and 31 the harvest end date lies in the
\* calendar year after the harvest start date, and every today in November,
\* December or January is classified as within the harvest window.
C2_Wraparound ==
    IsNovJanLookup =>
        \A p \in PlantingsOf :
            /\ YearOf(p.harvest_end_date) = YearOf(p.harvest_start_date) + 1
            /\ MonthOf(req.today) \in {11, 12, 1}
                  => (p.is_harvestable /\ ~p.is_off_season)

\* a January request of the Nov-Jan season answered from the season that
\* started the year before
C2_Witness ==
    /\ IsNovJanLookup
    /\ MonthOf(req.today) = 1
    /\ \E p \in PlantingsOf :
          /\ p.is_harvestable
          /\ YearOf(p.harvest_start_date) = YearOf(req.today) - 1
          /\ YearOf(p.harvest_end_date) = YearOf(req.today)

\* C3: for the Nov 1 - Jan 31 availability, get_in_season and search_by_crop
\* report the cultivar in season for every as_of_date from Nov 1 to Jan 31.
C3_InSeasonAcrossYear ==
    ( /\ resp.op \in {"get_in_season", "search_by_crop"}
      /\ req.region = "indian_river" \/ req.crop = "navel_orange"
      /\ MonthOf(req.today) \in {11, 12, 1} )
    => \E row \in resp.results :
          row.cultivar_id = "washington_navel" /\ row.in_season

\* C4: whenever is_at_peak, is_in_optimal_window or is_past_optimal is true,
\* is_harvestable is true and is_off_season is false.
C4_HarvestableSuperset ==
    \A p \in PlantingsOf :
        (p.is_at_peak \/ p.is_in_optimal_window \/ p.is_past_optimal)
        => (p.is_harvestable /\ ~p.is_off_season)

\* C5 as claimed: exactly one of is_off_season and is_harvestable is true.
C5_ExactlyOne ==
    \A p \in PlantingsOf : p.is_off_season # p.is_harvestable

\* C5 as amended: is_off_season and is_harvestable are never both true;
\* /predict/cultivar sets exactly one of them; /predict sets neither exactly
\* when the accumulated GDD is at least 70% of gdd_to_maturity and below
\* gdd_to_maturity (the "Not yet" message).
C5_TopLevelStatus ==
    \A p \in PlantingsOf :
        /\ ~(p.is_off_season /\ p.is_harvestable)
        /\ resp.op = "predict_cultivar" => (p.is_off_season # p.is_harvestable)
        /\ resp.op = "predict" =>
              ( (~p.is_off_season /\ ~p.is_harvestable)
                <=> ( /\ 10 * p.current_gdd10 >= 7 * 10 * p.gdd_to_maturity
                      /\ p.current_gdd10 < 10 * p.gdd_to_maturity ) )

\* a /predict response that is neither off-season nor harvestable, and one
\* past the harvest end that is off-season only
C5_Witness ==
    /\ resp.op = "predict"
    /\ \E p \in PlantingsOf :
          ~p.is_off_season /\ ~p.is_harvestable /\ p.harvest_window = "not_yet"

\* the display status a harvest_window message stands for
DisplayStatus(msg) ==
    CASE msg = "at_peak" -> "at_peak"
      [] msg = "in_optimal_window" -> "in_optimal_window"
      [] msg = "past_optimal" -> "past_optimal"
      [] msg \in {"harvestable", "harvestable_peak_in_days"} -> "harvestable"
      [] msg \in {"off_season", "season_starts_in_days", "season_date",
                  "next_season_in_days", "next_season_month"} -> "off_season"
      [] OTHER -> "none"

\* C6: the displayed status follows the priority at_peak > in_optimal_window
\* > past_optimal > harvestable > off_season over the flags that are true.
C6_DisplayPriority ==
    \A p \in PlantingsOf :
        DisplayStatus(p.harvest_window) =
            IF p.is_at_peak THEN "at_peak"
            ELSE IF p.is_in_optimal_window THEN "in_optimal_window"
            ELSE IF p.is_past_optimal THEN "past_optimal"
            ELSE IF p.is_harvestable THEN "harvestable"
            ELSE IF p.is_off_season THEN "off_season"
            ELSE "none"

\* C7: if today is more than 30 days past the projected window end date and
\* the crop is not apple or pear, /predict rolls the prediction forward and
\* returns showing_next_season = true; apple and pear are never rolled forward.
C7_RollForward ==
    resp.op = "predict" =>
        \A p \in PlantingsOf :
            /\ (req.today - p.first_harvest_end_date > 30 /\ req.crop \notin storage_crops)
                   => p.showing_next_season
            /\ req.crop \in storage_crops => ~p.showing_next_season

\* the next occurrence of the bloom date after the selected reference date
NextBloomAfter(ref) ==
    IF resp.op = "predict"
    THEN LET bloom == get_crop_phenology(req.crop, req.region).bloom
         IN  DateOf(YearOf(ref) + 1, bloom[1], bloom[2])
    ELSE LET rd == RegionalData[<<req.cultivar_id, req.region>>]
             bloom_doy == OrElse(rd.avg_bloom_peak_doy, OrElse(rd.avg_bloom_start_doy, 100))
         IN  Jan1(YearOf(ref) + 1) + bloom_doy - 1

\* the response's reference date was selected from the bloom calendar
\* (/predict, and /predict/cultivar without grower planting dates)
UsesBloomCalendar ==
    /\ resp.op \in {"predict", "predict_cultivar"} /\ resp.error = ""
    /\ resp.prediction_mode \in {"crop", "regional-average"}

\* C8: the selected reference date is the most recent bloom date not later
\* than today (the following bloom date is after today), and the maximum
\* development span has not elapsed since it.
C8_ReferenceDate ==
    UsesBloomCalendar =>
        \A p \in PlantingsOf :
            /\ p.reference_date <= req.today
            /\ NextBloomAfter(p.reference_date) > req.today
            /\ req.today - p.reference_date < 550

\* a request made before this year's bloom date, answered from last year's
C8_Witness ==
    /\ UsesBloomCalendar
    /\ \E p \in PlantingsOf :
          /\ YearOf(p.reference_date) = YearOf(req.today) - 1
          /\ p.reference_date <= req.today

C10_FallbackNeverFails ==
    ( /\ resp.op = "predict_cultivar"
      /\ req.cultivar_id # "" /\ req.region \in RegionIds
      /\ req.rootstock_id = "" \/ req.rootstock_id \in Rootstocks
      /\ req.planting_dates_wellformed
      /\ \/ req.cultivar_id \notin DOMAIN Cultivars
         \/ <<req.cultivar_id, req.region>> \notin DOMAIN RegionalData )
    => (resp.error = "" /\ PlantingsOf # {})

\* the historical weather fetch of the request raised or returned no
\* observations, and the request passed validation
WeatherFellBack ==
    /\ resp.op \in {"predict", "predict_cultivar"} /\ resp.error = ""
    /\ req.weather.kind \in {"empty", "raise"}

\* the regional average GDD per day predict_cultivar falls back to
RegionalRate10 ==
    OrElse(RegionalData[<<req.cultivar_id, req.region>>].avg_gdd_per_day10, 150)

\* C11 as claimed: when the fetch raises or returns no observations the
\* request still returns a prediction, computed from the climatology average
\* daily GDD, with a data source annotated as degraded.
C11_ClimatologyFallback ==
    WeatherFellBack =>
        /\ PlantingsOf # {}
        /\ \A p \in PlantingsOf :
              p.reference_date < req.today =>
                 /\ p.data_source[2] \in {"climatology_estimate", "weather_unavailable"}
                 /\ p.avg_daily_gdd10 = IF resp.op = "predict" THEN req.weather.clim10
                                        ELSE RegionalRate10

\* What the handlers do guarantee on a degraded fetch: the request never
\* fails and the data source is annotated ("climatology estimate" for an empty list, "weather unavailable" for a
\* raised fetch, never the real-weather annotation); the average daily GDD
\* is the climatology value when /predict gets an empty list, the fixed 20.0
\* when /predict's fetch raises, and the regional average (15.0 if absent)
\* in /predict/cultivar.
DegradedWeatherFallback ==
    /\ WeatherFellBack =>
          /\ PlantingsOf # {}
          /\ \A p \in PlantingsOf :
                p.reference_date < req.today =>
                   /\ p.data_source[2] = IF req.weather.kind = "empty"
                                         THEN "climatology_estimate"
                                         ELSE "weather_unavailable"
                   /\ p.avg_daily_gdd10 =
                         IF resp.op = "predict_cultivar" THEN RegionalRate10
                         ELSE IF req.weather.kind = "empty" THEN req.weather.clim10
                         ELSE 200
                   /\ p.current_gdd10 = (req.today - p.reference_date) * p.avg_daily_gdd10
    /\ \A p \in PlantingsOf :
          p.data_source[2] = "open_meteo" => req.weather.kind = "obs"

\* the crop has no phenology row for the region's harvest type
NoRegionMatch(crop_id, region_id) ==
    \/ crop_id \notin DOMAIN CROP_PHENOLOGY
    \/ get_region_harvest_type(region_id) \notin DOMAIN CROP_PHENOLOGY[crop_id]

\* C12: when no region match exists for the crop, /predict resolves the
\* phenology to the generic defaults (maturity 1800, peak 2100, window 200
\* GDD) and labels the source as generic defaults.
C12_GenericDefaults ==
    (resp.op = "predict" /\ resp.error = "" /\ NoRegionMatch(req.crop, req.region))
    => \A p \in PlantingsOf :
          /\ p.gdd_to_maturity = 1800 /\ p.gdd_to_peak = 2100 /\ p.gdd_window = 200
          /\ p.data_source[1] = "Generic defaults"

-----------------------------------------------------------------------------
(* Pure functions of the engine: confidence, display, daily GDD.           *)
(* Confidence is in hundredths, temperatures in whole degrees F, a daily   *)
(* GDD in half degrees (suffix 2), displayed values in tenths.             *)

\* base_confidence ranges over (-BelowZero)..MaxBase hundredths
BelowZero == 20
MaxBase == 120
\* days_until_event ranges over 0..MaxDays
MaxDays == 70
\* historical_variance in hundredths; 0 stands for None (and for 0.0)
Variances == {0, 20, 30}
\* a confidence in hundredths carried with four more decimal digits
Scale == 100 * 100

Min2(a, b) == IF a < b THEN a ELSE b
Max2(a, b) == IF a > b THEN a ELSE b

\* the product confidence *= ... of adjust_confidence_for_conditions,
\* before the clamp, in units of 1/Scale hundredths (exact)
AdjustProduct(base100, days, forecast, variance100) ==
    LET c0 == base100 * Scale
        c1 == IF days > 60 THEN (c0 * 70) \div 100
              ELSE IF days > 30 THEN (c0 * 85) \div 100
              ELSE IF days > 14 THEN (c0 * 95) \div 100
              ELSE c0
        c2 == IF ~forecast /\ days <= 14 THEN (c1 * 90) \div 100 ELSE c1
    IN  IF variance100 # 0 /\ variance100 > 20 THEN (c2 * 85) \div 100 ELSE c2

\* round(x, 2) of a value given in 1/Scale hundredths (ties to even)
Round2(c) ==
    LET q == c \div Scale
        r == c % Scale
    IN  IF r > Scale \div 2 \/ (r = Scale \div 2 /\ q % 2 = 1) THEN q + 1 ELSE q

adjust_confidence_for_conditionsAlt(base100, days, forecast, variance100) ==
    Round2(AdjustProduct(base100, days, forecast, variance100))

\* PredictionBuilder.adjust_confidence_for_conditions, result in hundredths
adjust_confidence_for_conditions(base100, days, forecast, variance100) ==
    Round2(Min2(95 * Scale,
                Max2(10 * Scale, AdjustProduct(base100, days, forecast, variance100))))

\* PredictionRange.__post_init__: the level of a numeric confidence
confidence_level(confidence100) ==
    IF confidence100 >= 80 THEN "HIGH"
    ELSE IF confidence100 >= 60 THEN "MEDIUM"
    ELSE IF confidence100 >= 40 THEN "LOW"
    ELSE "SPECULATIVE"

\* PredictionRange.to_display: the f-string chosen and the values it
\* formats with one decimal (low, mid, high in tenths)
to_display(low10, mid10, high10, confidence100) ==
    LET level == confidence_level(confidence100)
    IN  IF level = "HIGH"
        THEN [template |-> "{mid} (+-{high-mid})", args |-> <<mid10, high10 - mid10>>]
        ELSE IF level \in {"MEDIUM", "LOW"}
        THEN [template |-> "{low} - {high}", args |-> <<low10, high10>>]
        ELSE [template |-> "~{mid} (estimate)", args |-> <<mid10>>]

\* max_temp argument: [given |-> FALSE] is None
NoMaxTemp == [given |-> FALSE, value |-> 0]
GivenMaxTemp(t) == [given |-> TRUE, value |-> t]

calculate_daily_gddAlt(temp_high_f, temp_low_f, base_temp, max_temp) ==
    LET capped_high == IF max_temp.given /\ max_temp.value # 0
                       THEN Min2(temp_high_f, max_temp.value) ELSE temp_high_f
        capped_low == Max2(temp_low_f, base_temp)
    IN  (capped_high + capped_low) - 2 * base_temp

\* calculate_daily_gdd of the research scripts, result in half degrees:
\* "if max_temp" is false for None and for 0
calculate_daily_gdd(temp_high_f, temp_low_f, base_temp, max_temp) ==
    LET capped_high == IF max_temp.given /\ max_temp.value # 0
                       THEN Min2(temp_high_f, max_temp.value) ELSE temp_high_f
        capped_low == Max2(temp_low_f, base_temp)
    IN  Max2(0, (capped_high + capped_low) - 2 * base_temp)

\* WeatherObservation.gdd with temp_avg = (temp_high + temp_low) / 2
WeatherObservation_gdd(temp_high, temp_low, base_temp) ==
    Max2(0, (temp_high + temp_low) - 2 * base_temp)

\* DailyWeather.calculate_gdd
DailyWeather_calculate_gdd(temp_high_f, temp_low_f, base_temp) ==
    Max2(0, (temp_high_f + temp_low_f) - 2 * base_temp)

-----------------------------------------------------------------------------
(* Crop quality models (quality_predictor.py).  A freshness multiplier is  *)
(* in ten-thousandths (1.0 = 10000), sugar in thousandths of a unit        *)
(* (Brix, or oil % for pecan), GDD in whole degree days.                   *)

\* the ten CropQualityModel subclasses
QualityModels ==
    {"citrus", "berry", "tomato", "peach", "cherry", "apple", "pear", "mango",
     "pecan", "blueberry"}

\* calculate_freshness_decay of each model: the "days_since_harvest <= limit"
\* steps in order, then max(floor, 1.0 - (days - from) * slope)
FreshnessCurves ==
    [ citrus |->
        [cold |-> [steps |-> << <<7, 10000>>, <<14, 9800>>, <<30, 9500>> >>,
                   floor |-> 8000, from |-> 30, slope |-> 100],
         warm |-> [steps |-> << <<3, 10000>>, <<7, 9500>> >>,
                   floor |-> 7000, from |-> 7, slope |-> 300]],
      berry |->
        [cold |-> [steps |-> << <<1, 10000>>, <<3, 9500>>, <<5, 8500>> >>,
                   floor |-> 5000, from |-> 5, slope |-> 1000],
         warm |-> [steps |-> << <<1, 9500>>, <<2, 8000>> >>,
                   floor |-> 3000, from |-> 0, slope |-> 2000]],
      tomato |->
        [cold |-> [steps |-> << <<2, 10000>>, <<5, 9500>>, <<7, 9000>> >>,
                   floor |-> 6000, from |-> 7, slope |-> 500],
         warm |-> [steps |-> << <<2, 10000>>, <<5, 9500>>, <<7, 9000>> >>,
                   floor |-> 6000, from |-> 7, slope |-> 500]],
      peach |->
        [cold |-> [steps |-> << <<5, 10000>>, <<10, 9500>>, <<14, 8500>> >>,
                   floor |-> 5000, from |-> 14, slope |-> 500],
         warm |-> [steps |-> << <<3, 10000>>, <<5, 9000>> >>,
                   floor |-> 4000, from |-> 5, slope |-> 1000]],
      cherry |->
        [cold |-> [steps |-> << <<3, 10000>>, <<7, 9500>>, <<14, 8500>> >>,
                   floor |-> 5000, from |-> 14, slope |-> 500],
         warm |-> [steps |-> << <<1, 10000>>, <<3, 8500>> >>,
                   floor |-> 3000, from |-> 3, slope |-> 1500]],
      apple |->
        [cold |-> [steps |-> << <<30, 10000>>, <<60, 9800>>, <<90, 9500>>,
                                <<180, 9000>> >>,
                   floor |-> 7000, from |-> 180, slope |-> 20],
         warm |-> [steps |-> << <<7, 10000>>, <<14, 9500>>, <<30, 8500>> >>,
                   floor |-> 5000, from |-> 30, slope |-> 200]],
      pear |->
        [cold |-> [steps |-> << <<60, 10000>>, <<90, 9800>> >>,
                   floor |-> 8000, from |-> 90, slope |-> 30],
         warm |-> [steps |-> << <<3, 10000>>, <<5, 10000>>, <<7, 9000>> >>,
                   floor |-> 4000, from |-> 7, slope |-> 1000]],
      mango |->
        [cold |-> [steps |-> << <<7, 10000>>, <<14, 9500>> >>,
                   floor |-> 6000, from |-> 14, slope |-> 300],
         warm |-> [steps |-> << <<5, 10000>>, <<8, 10000>>, <<10, 9000>> >>,
                   floor |-> 4000, from |-> 10, slope |-> 1000]],
      pecan |->
        [cold |-> [steps |-> << <<180, 10000>>, <<365, 9800>> >>,
                   floor |-> 8500, from |-> 365, slope |-> 5],
         warm |-> [steps |-> << <<30, 10000>>, <<90, 9500>>, <<180, 8500>> >>,
                   floor |-> 5000, from |-> 180, slope |-> 20]],
      blueberry |->
        [cold |-> [steps |-> << <<5, 10000>>, <<10, 9500>>, <<14, 9000>> >>,
                   floor |-> 6000, from |-> 14, slope |-> 300],
         warm |-> [steps |-> << <<3, 10000>>, <<5, 9000>> >>,
                   floor |-> 4000, from |-> 5, slope |-> 1000]] ]

\* calculate_freshness_decay(days_since_harvest, cold_chain) of a model
calculate_freshness_decay(model, days_since_harvest, cold_chain) ==
    LET c == IF cold_chain THEN FreshnessCurves[model].cold
             ELSE FreshnessCurves[model].warm
        hit == {i \in 1..Len(c.steps) : days_since_harvest <= c.steps[i][1]}
    IN  IF hit # {}
        THEN c.steps[CHOOSE i \in hit : \A j \in hit : i <= j][2]
        ELSE Max2(c.floor, 10000 - (days_since_harvest - c.from) * c.slope)

\* the models with the logistic curve: ssc_min (thousandths), dd50, s
LogisticParams ==
    [ citrus    |-> [ssc_min |-> 6000,  dd50 |-> 5500, s |-> 900],
      tomato    |-> [ssc_min |-> 3500,  dd50 |-> 1200, s |-> 200],
      peach     |-> [ssc_min |-> 8000,  dd50 |-> 1900, s |-> 200],
      cherry    |-> [ssc_min |-> 10000, dd50 |-> 1400, s |-> 80],
      apple     |-> [ssc_min |-> 10000, dd50 |-> 2300, s |-> 300],
      pear      |-> [ssc_min |-> 10000, dd50 |-> 1900, s |-> 250],
      mango     |-> [ssc_min |-> 10000, dd50 |-> 3000, s |-> 400],
      blueberry |-> [ssc_min |-> 8000,  dd50 |-> 1300, s |-> 150] ]

\* 10000 * e^(h/2), rounded, for h = -24..24 (entry h + 25)
ExpHalves ==
    << 0, 0, 0, 0, 0, 1, 1, 2, 3, 6, 9, 15, 25, 41, 67, 111, 183, 302, 498, 821,
       1353, 2231, 3679, 6065, 10000, 16487, 27183, 44817, 73891, 121825,
       200855, 331155, 545982, 900171, 1484132, 2446919, 4034288, 6651416,
       10966332, 18080424, 29809580, 49147688, 81030839, 133597268, 220264658,
       363155027, 598741417, 987157710, 1627547914 >>

\* 10000 * math.exp(num / den), with the exponent taken down to the half
\* unit below and kept within -12..12
math_exp(num, den) ==
    LET h == (2 * num) \div den
    IN  ExpHalves[Max2(-24, Min2(24, h)) + 25]

Logistic_predict_sugar_contentAlt(m, gdd_accumulated, cultivar_ceiling) ==
    m.ssc_min + ((cultivar_ceiling - m.ssc_min) * 10000)
                    \div (10000 + math_exp(gdd_accumulated - m.dd50, m.s))

\* ssc_min + (cultivar_ceiling - ssc_min) / (1 + exp(-(gdd - dd50) / s))
Logistic_predict_sugar_content(m, gdd_accumulated, cultivar_ceiling) ==
    m.ssc_min + ((cultivar_ceiling - m.ssc_min) * 10000)
                    \div (10000 + math_exp(-(gdd_accumulated - m.dd50), m.s))

\* BerryQualityModel.predict_sugar_content
Berry_predict_sugar_content(gdd_accumulated, cultivar_ceiling) ==
    LET gdd_to_peak == 1500
    IN  IF gdd_accumulated >= gdd_to_peak THEN cultivar_ceiling
        ELSE (cultivar_ceiling * gdd_accumulated) \div gdd_to_peak

Pecan_predict_sugar_contentAlt(gdd_accumulated, cultivar_ceiling) ==
    LET gdd_target == 2900
        max_oil == 70000
        min_oil == 55000
    IN  IF gdd_accumulated >= gdd_target THEN max_oil
        ELSE min_oil + ((max_oil - min_oil) * (gdd_accumulated - 2600))
                           \div (gdd_target - 2600)

\* PecanQualityModel.predict_sugar_content (oil content, the ceiling is unused)
Pecan_predict_sugar_content(gdd_accumulated, cultivar_ceiling) ==
    LET gdd_target == 2900
        max_oil == 70000
        min_oil == 55000
    IN  IF gdd_accumulated >= gdd_target THEN max_oil
        ELSE IF gdd_accumulated >= 2600
        THEN min_oil + ((max_oil - min_oil) * (gdd_accumulated - 2600))
                           \div (gdd_target - 2600)
        ELSE min_oil

\* predict_sugar_content(gdd_accumulated, cultivar_ceiling) of a model
predict_sugar_content(model, gdd_accumulated, cultivar_ceiling) ==
    IF model = "berry" THEN Berry_predict_sugar_content(gdd_accumulated, cultivar_ceiling)
    ELSE IF model = "pecan"
    THEN Pecan_predict_sugar_content(gdd_accumulated, cultivar_ceiling)
    ELSE Logistic_predict_sugar_content(LogisticParams[model], gdd_accumulated,
                                        cultivar_ceiling)

\* days_since_harvest ranges over 0..MaxStorageDays
MaxStorageDays == 400
\* berry and pecan calls: gdd_accumulated over 0, GddStep, ..., GddSteps * GddStep
GddStep == 50
GddSteps == 64
\* logistic calls: gdd_accumulated = dd50 + k * s/2 for k in -MaxHalfSteps..MaxHalfSteps,
\* where the exponent is a whole number of half units
MaxHalfSteps == 24
GddGrid(model) ==
    IF model \in DOMAIN LogisticParams
    THEN LET m == LogisticParams[model]
         IN  {g \in {m.dd50 + k * (m.s \div 2) : k \in (-MaxHalfSteps)..MaxHalfSteps} :
                 g >= 0}
    ELSE {k * GddStep : k \in 0..GddSteps}
\* cultivar ceilings, thousandths
Ceilings == {5000, 10000, 12000, 16000}

FreshnessCalls ==
    [fn : {"calculate_freshness_decay"}, model : QualityModels,
     days_since_harvest : 0..MaxStorageDays, cold_chain : BOOLEAN]

SugarCalls ==
    UNION { [fn : {"predict_sugar_content"}, model : {model},
             gdd_accumulated : GddGrid(model), cultivar_ceiling : Ceilings] :
            model \in QualityModels }

-----------------------------------------------------------------------------
(* HarvestPredictor (fielder-engine/fielder/services/harvest_predictor.py) *)

\* CITRUS_GDD_TARGETS rows; the rows have no "gdd_to_legal_maturity" key
CITRUS_GDD_TARGETS ==
    [ navel_orange |-> [gdd_to_maturity |-> 5100, gdd_to_peak |-> 6100],
      valencia     |-> [gdd_to_maturity |-> 8000, gdd_to_peak |-> 9000] ]

\* HarvestPredictor.predict_harvest_window: the four dates of the window;
\* avg_daily_gdd in tenths, positive
predict_harvest_window(crop_id, current_gdd, avg_daily_gdd10, today) ==
    LET gdd_to_maturity == 2000
        gdd_to_peak == IF crop_id \in DOMAIN CITRUS_GDD_TARGETS
                       THEN CITRUS_GDD_TARGETS[crop_id].gdd_to_peak ELSE 2300
        days_to_maturity ==
            Max2(0, IntDiv((gdd_to_maturity - current_gdd) * 10, avg_daily_gdd10))
        days_to_peak ==
            Max2(0, IntDiv((gdd_to_peak - current_gdd) * 10, avg_daily_gdd10))
        window_start == today + days_to_maturity
        peak_center == today + days_to_peak
        peak_start == peak_center - 15
        peak_end == peak_center + 15
    IN  [window_start |-> window_start, window_end |-> peak_end + 30,
         peak_start |-> peak_start, peak_end |-> peak_end,
         gdd_at_window_start |-> gdd_to_maturity, gdd_at_peak |-> gdd_to_peak]

\* cumulative GDD below, between and above the targets
CurrentGdds == {0, 1000, 1900, 2000, 2200, 2300, 2500, 6000, 6100, 7000, 9500}

HarvestWindowCalls ==
    [fn : {"predict_harvest_window"}, crop_id : {"navel_orange", "valencia", "peach"},
     current_gdd : CurrentGdds, avg_daily_gdd10 : {50, 150, 220, 400},
     today : {DateOf(FirstYear, 1, 10), DateOf(FirstYear, 12, 25)}]

-----------------------------------------------------------------------------
(* Calls of the pure functions, and the specification that applies them *)

\* calls of adjust_confidence_for_conditions whose clamped product is not
\* halfway between two hundredths: there round() is decided by the binary
\* representation error of the float product, which integers do not carry
AdjustCalls ==
    { c \in [fn : {"adjust_confidence_for_conditions"},
             base100 : (-BelowZero)..MaxBase, days : 0..MaxDays,
             forecast : BOOLEAN, variance100 : Variances] :
        Min2(95 * Scale, Max2(10 * Scale,
             AdjustProduct(c.base100, c.days, c.forecast, c.variance100))) % Scale
          # Scale \div 2 }

\* PredictionRange objects, values in tenths and confidence in hundredths
DisplayCalls ==
    [fn : {"to_display"}, low10 : {80, 95}, mid10 : {100}, high10 : {100, 120},
     confidence100 : 0..100]

Temps == {-10, 0, 30, 40, 50, 55, 60, 70, 86, 100}
BaseTemps == {-10, 0, 50, 55}
MaxTemps == {NoMaxTemp} \cup {GivenMaxTemp(t) : t \in {0, 30, 86}}

GddCalls ==
    [fn : {"calculate_daily_gdd"}, temp_high_f : Temps, temp_low_f : Temps,
     base_temp : BaseTemps, max_temp : MaxTemps]

ObservationCalls ==
    [fn : {"WeatherObservation.gdd", "DailyWeather.calculate_gdd"},
     temp_high_f : Temps, temp_low_f : Temps, base_temp : BaseTemps]

\* CultivarDataCompleteness.base_confidence, hundredths; factors is the
\* number of has_* flags that are set (completeness_score = factors / 5)
base_confidence(factors, brix_study_count, years_of_harvest_data) ==
    LET score == 20 * factors
        boosted == score + (IF brix_study_count >= 5 THEN 10 ELSE 0)
        score2 == boosted + (IF years_of_harvest_data >= 10 THEN 10 ELSE 0)
    IN  Min2(95, score2)

\* an Optional[float] cultivar_base, tenths of a degree Brix
NoCultivarBase == [given |-> FALSE, value |-> 0]
GivenCultivarBase(b) == [given |-> TRUE, value |-> b]

\* PredictionBuilder.build_brix_prediction; Brix in tenths
build_brix_prediction(cultivar_base, rootstock_modifier, age_modifier, timing_modifier, confidence100) ==
    IF ~cultivar_base.given
    THEN [low |-> 80, mid |-> 100, high |-> 120, confidence |-> 30,
          confidence_level |-> confidence_level(30),
          data_quality |-> "LOW", basis |-> "crop average (no cultivar data)"]
    ELSE
    LET point_estimate == cultivar_base.value + rootstock_modifier
                            + age_modifier + timing_modifier
        half == IF confidence100 >= 70 THEN 5
                ELSE IF confidence100 >= 50 THEN 10 ELSE 15
        data_quality == IF confidence100 >= 70 THEN "HIGH"
                        ELSE IF confidence100 >= 50 THEN "MEDIUM" ELSE "LOW"
    IN  [low |-> Max2(0, point_estimate - half),
         mid |-> point_estimate,
         high |-> point_estimate + half,
         confidence |-> confidence100,
         confidence_level |-> confidence_level(confidence100),
         data_quality |-> data_quality,
         basis |-> "cultivar research + modifiers"]

BrixCalls ==
    [fn : {"build_brix_prediction"},
     cultivar_base : {NoCultivarBase} \cup {GivenCultivarBase(b) : b \in {0, 5, 12, 110, 140}},
     rootstock_modifier : {-8, 0, 6},
     age_modifier : {-8, -5, 0},
     timing_modifier : {-10, 0},
     factors : 0..5,
     brix_study_count : {0, 5},
     years_of_harvest_data : {0, 10}]

FnInit ==
    /\ pc = "call"
    /\ resp = [op |-> "none"]
    /\ \/ req \in AdjustCalls
       \/ req \in DisplayCalls
       \/ req \in GddCalls
       \/ req \in ObservationCalls
       \/ req \in FreshnessCalls
       \/ req \in SugarCalls
       \/ req \in HarvestWindowCalls
       \/ req \in BrixCalls

AdjustConfidence ==
    /\ pc = "call" /\ req.fn = "adjust_confidence_for_conditions"
    /\ resp' = [op |-> req.fn,
                confidence100 |-> adjust_confidence_for_conditions(
                    req.base100, req.days, req.forecast, req.variance100)]
    /\ pc' = "done"
    /\ UNCHANGED req

ToDisplay ==
    /\ pc = "call" /\ req.fn = "to_display"
    /\ resp' = [op |-> req.fn,
                confidence_level |-> confidence_level(req.confidence100),
                display |-> to_display(req.low10, req.mid10, req.high10,
                                       req.confidence100)]
    /\ pc' = "done"
    /\ UNCHANGED req

CalculateDailyGdd ==
    /\ pc = "call" /\ req.fn = "calculate_daily_gdd"
    /\ resp' = [op |-> req.fn,
                gdd2 |-> calculate_daily_gdd(req.temp_high_f, req.temp_low_f,
                                             req.base_temp, req.max_temp)]
    /\ pc' = "done"
    /\ UNCHANGED req

ObservationGdd ==
    /\ pc = "call" /\ req.fn = "WeatherObservation.gdd"
    /\ resp' = [op |-> req.fn,
                gdd2 |-> WeatherObservation_gdd(req.temp_high_f, req.temp_low_f,
                                                req.base_temp)]
    /\ pc' = "done"
    /\ UNCHANGED req

DailyWeatherGdd ==
    /\ pc = "call" /\ req.fn = "DailyWeather.calculate_gdd"
    /\ resp' = [op |-> req.fn,
                gdd2 |-> DailyWeather_calculate_gdd(req.temp_high_f, req.temp_low_f,
                                                    req.base_temp)]
    /\ pc' = "done"
    /\ UNCHANGED req

FreshnessDecay ==
    /\ pc = "call" /\ req.fn = "calculate_freshness_decay"
    /\ resp' = [op |-> req.fn,
                multiplier |-> calculate_freshness_decay(
                    req.model, req.days_since_harvest, req.cold_chain)]
    /\ pc' = "done"
    /\ UNCHANGED req

SugarContent ==
    /\ pc = "call" /\ req.fn = "predict_sugar_content"
    /\ resp' = [op |-> req.fn,
                sugar |-> predict_sugar_content(
                    req.model, req.gdd_accumulated, req.cultivar_ceiling)]
    /\ pc' = "done"
    /\ UNCHANGED req

PredictHarvestWindow ==
    /\ pc = "call" /\ req.fn = "predict_harvest_window"
    /\ resp' = [op |-> req.fn,
                window |-> predict_harvest_window(req.crop_id, req.current_gdd,
                                                  req.avg_daily_gdd10, req.today)]
    /\ pc' = "done"
    /\ UNCHANGED req

BuildBrixPrediction ==
    /\ pc = "call" /\ req.fn = "build_brix_prediction"
    /\ resp' = [op |-> req.fn,
                range |-> build_brix_prediction(
                    req.cultivar_base, req.rootstock_modifier, req.age_modifier,
                    req.timing_modifier,
                    base_confidence(req.factors, req.brix_study_count,
                                    req.years_of_harvest_data))]
    /\ pc' = "done"
    /\ UNCHANGED req

FnNext ==
    \/ AdjustConfidence
    \/ ToDisplay
    \/ CalculateDailyGdd
    \/ ObservationGdd
    \/ DailyWeatherGdd
    \/ FreshnessDecay
    \/ SugarContent
    \/ PredictHarvestWindow
    \/ BuildBrixPrediction

FnSpec == FnInit /\ [][FnNext]_vars

-----------------------------------------------------------------------------
(* Properties of the pure functions *)

AdjustDone == pc = "done" /\ resp.op = "adjust_confidence_for_conditions"

\* C13: for fixed base_confidence, forecast availability and historical
\* variance, the adjusted confidence never increases as days_until_event
\* increases: no later day gives more than the day of this call.
C13_MonotonicDecay ==
    AdjustDone =>
        \A d \in req.days..MaxDays :
            [req EXCEPT !.days = d] \in AdjustCalls =>
                adjust_confidence_for_conditions(req.base100, d, req.forecast,
                                                 req.variance100)
                    <= resp.confidence100

\* C14: the adjusted confidence is always within [0.1, 0.95].
C14_ConfidenceBounds ==
    AdjustDone => (resp.confidence100 >= 10 /\ resp.confidence100 <= 95)

\* both ends of the clamp are exercised by the input of this call
C14_Witness ==
    /\ AdjustDone
    /\ req.base100 > 100 /\ req.days <= 14 /\ req.forecast
    /\ resp.confidence100 = 95

\* C15: for every PredictionRange with confidence < 0.8, to_display
\* includes the range (low and high, or a +/- width).
C15_RangeBelowHigh ==
    (pc = "done" /\ resp.op = "to_display" /\ req.confidence100 < 80)
    => resp.display.template \in {"{low} - {high}", "{mid} (+-{high-mid})"}

DailyGddDone ==
    /\ pc = "done"
    /\ resp.op \in {"calculate_daily_gdd", "WeatherObservation.gdd",
                    "DailyWeather.calculate_gdd"}

\* C16: every daily-GDD computation returns a value >= 0, for all
\* temp_high, temp_low, base_temp and optional max_temp.
C16_GddNonNegative ==
    DailyGddDone => resp.gdd2 >= 0

\* a day whose capped average is below the base temperature
C16_Witness ==
    /\ pc = "done" /\ resp.op = "calculate_daily_gdd"
    /\ req.temp_high_f < req.base_temp /\ req.temp_low_f < req.temp_high_f
    /\ resp.gdd2 = 0

\* C17: whenever max_temp is provided, calculate_daily_gdd equals
\* max(0, (min(high, max_temp) + max(low, base))/2 - base).
C17_CappedFormula ==
    (pc = "done" /\ resp.op = "calculate_daily_gdd" /\ req.max_temp.given)
    => resp.gdd2 = Max2(0, (Min2(req.temp_high_f, req.max_temp.value)
                            + Max2(req.temp_low_f, req.base_temp))
                           - 2 * req.base_temp)

FreshnessDone == pc = "done" /\ resp.op = "calculate_freshness_decay"

\* every day up to d has multiplier 1.0: d is in the initial plateau
InPlateau(model, d, cold_chain) ==
    \A e \in 0..d : calculate_freshness_decay(model, e, cold_chain) = 10000

\* C18: for every crop quality model the initial period with multiplier 1.0
\* lasts at least as long with cold chain as without, and on every day the
\* cold-chain multiplier is at least the non-cold-chain multiplier.
C18_ColdChainExtends ==
    FreshnessDone =>
        LET d == req.days_since_harvest
        IN  /\ calculate_freshness_decay(req.model, d, TRUE)
                 >= calculate_freshness_decay(req.model, d, FALSE)
            /\ InPlateau(req.model, d, FALSE) => InPlateau(req.model, d, TRUE)

SugarDone == pc = "done" /\ resp.op = "predict_sugar_content"

\* C19: the pecan model returns exactly 70.0 for every gdd >= 2900 and
\* exactly 55.0 for every gdd below 2600, whatever the cultivar ceiling; the
\* value always lies within [55.0, 70.0] and is non-decreasing in gdd.
C19_PecanOil ==
    (SugarDone /\ req.model = "pecan") =>
        /\ req.gdd_accumulated >= 2900 => resp.sugar = 70000
        /\ req.gdd_accumulated < 2600 => resp.sugar = 55000
        /\ resp.sugar >= 55000 /\ resp.sugar <= 70000
        /\ \A c \in Ceilings :
              predict_sugar_content("pecan", req.gdd_accumulated, c) = resp.sugar
        /\ \A g \in GddGrid("pecan") :
              g >= req.gdd_accumulated =>
                 predict_sugar_content("pecan", g, req.cultivar_ceiling) >= resp.sugar

\* the floor at gdd = 2000, with a ceiling far below the oil content
C19_Witness ==
    /\ SugarDone /\ req.model = "pecan"
    /\ req.gdd_accumulated = 2000 /\ req.cultivar_ceiling = 12000
    /\ resp.sugar = 55000

\* the minimum of a model's sugar curve, thousandths
ModelMinimum(model) ==
    IF model = "berry" THEN 0
    ELSE IF model = "pecan" THEN 55000
    ELSE LogisticParams[model].ssc_min

\* no later gdd gives less sugar than this call
SugarNonDecreasing ==
    \A g \in GddGrid(req.model) :
        g >= req.gdd_accumulated =>
            predict_sugar_content(req.model, g, req.cultivar_ceiling) >= resp.sugar

\* C20 as claimed: for every crop family and every ceiling, sugar is
\* non-decreasing in gdd and lies between the model's minimum and the ceiling.
C20_SugarCurveAllFamilies ==
    SugarDone =>
        /\ SugarNonDecreasing
        /\ resp.sugar >= ModelMinimum(req.model)
        /\ resp.sugar <= req.cultivar_ceiling

\* gdd far enough along the curve that sugar has all but reached the ceiling
NearCeilingGdd ==
    IF req.model = "berry" THEN req.gdd_accumulated >= 1500
    ELSE req.gdd_accumulated >= LogisticParams[req.model].dd50
                                    + 6 * LogisticParams[req.model].s

\* gdd early enough that sugar is still at the model's minimum
NearMinimumGdd ==
    IF req.model = "berry" THEN req.gdd_accumulated = 0
    ELSE req.gdd_accumulated <= LogisticParams[req.model].dd50
                                    - 6 * LogisticParams[req.model].s

\* C20 as amended: for the logistic and berry families and every ceiling at
\* or above the model's minimum, sugar is non-decreasing in gdd, lies between
\* the minimum and the ceiling, is within 1% of the span of the ceiling at
\* high gdd and within 1% of the span of the minimum at low gdd.
C20_SugarCurve ==
    (SugarDone /\ req.model # "pecan"
               /\ req.cultivar_ceiling >= ModelMinimum(req.model)) =>
        LET tolerance == (req.cultivar_ceiling - ModelMinimum(req.model)) \div 100 + 1
        IN  /\ SugarNonDecreasing
            /\ resp.sugar >= ModelMinimum(req.model)
            /\ resp.sugar <= req.cultivar_ceiling
            /\ NearCeilingGdd => req.cultivar_ceiling - resp.sugar <= tolerance
            /\ NearMinimumGdd => resp.sugar - ModelMinimum(req.model) <= tolerance

\* the midpoint of the citrus curve: gdd = dd50 gives (6.0 + 12.0) / 2
C20_Witness ==
    /\ SugarDone /\ req.model = "citrus"
    /\ req.gdd_accumulated = 5500 /\ req.cultivar_ceiling = 12000
    /\ resp.sugar = 9000

-----------------------------------------------------------------------------
(* Properties of the handlers, continued *)

\* d is the whole number of days of threshold / rate (int() of the quotient)
WholeDays(d, gdd4, rate10) ==
    /\ d >= 0
    /\ d * 4 * rate10 <= 10 * gdd4
    /\ 10 * gdd4 < (d + 1) * 4 * rate10

\* the plantings of a /predict response projected from GDD
GddProjected ==
    IF resp.op = "predict" /\ resp.error = ""
    THEN {p \in PlantingsOf : p.mode = "gdd"}
    ELSE {}

\* every projected date is the reference date plus threshold / rate, whole days
DatesFromReference(p) ==
    /\ WholeDays(p.harvest_start_date - p.bloom_date, p.gdd4.maturity4, p.avg_daily_gdd10)
    /\ WholeDays(p.optimal_start_date - p.bloom_date, p.gdd4.optimal_start4, p.avg_daily_gdd10)
    /\ WholeDays(p.peak_center_date - p.bloom_date, p.gdd4.peak4, p.avg_daily_gdd10)
    /\ WholeDays(p.optimal_end_date - p.bloom_date, p.gdd4.optimal_end4, p.avg_daily_gdd10)
    /\ WholeDays(p.harvest_end_date - p.bloom_date, p.gdd4.harvest_end4, p.avg_daily_gdd10)

\* bloom March 15, gdd_to_maturity 5100, gdd_to_peak 6100, 22 GDD per day
Scenario1(p) ==
    /\ p.gdd_to_maturity = 5100 /\ p.gdd_to_peak = 6100 /\ p.avg_daily_gdd10 = 220
    /\ p.bloom_date = DateOf(YearOf(p.bloom_date), 3, 15)

\* C21 as claimed: each projected date is the reference date plus the whole
\* days of threshold / rate; in the scenario maturity is 231 days after bloom
\* (Nov 1) and the peak 277 days after bloom, about Jan 19.
C21_ProjectionJan19 ==
    \A p \in GddProjected :
        /\ DatesFromReference(p)
        /\ Scenario1(p) =>
              /\ p.harvest_start_date = p.bloom_date + 231
              /\ p.harvest_start_date = DateOf(YearOf(p.bloom_date), 11, 1)
              /\ p.peak_center_date = p.bloom_date + 277
              /\ p.peak_center_date = DateOf(YearOf(p.bloom_date) + 1, 1, 19)

\* C21 as amended: the same, but 277 days after a March 15 bloom is Dec 17
\* (still within the Dec-Jan window), not Jan 19.
C21_Projection ==
    \A p \in GddProjected :
        /\ DatesFromReference(p)
        /\ Scenario1(p) =>
              /\ p.harvest_start_date = p.bloom_date + 231
              /\ p.harvest_start_date = DateOf(YearOf(p.bloom_date), 11, 1)
              /\ p.peak_center_date = p.bloom_date + 277
              /\ p.peak_center_date = DateOf(YearOf(p.bloom_date), 12, 17)

\* the scenario, with today well after the reference date
C21_Witness ==
    \E p \in GddProjected :
        /\ Scenario1(p)
        /\ req.today > p.bloom_date + 30
        /\ p.peak_center_date = p.bloom_date + 277

-----------------------------------------------------------------------------
(* The prediction pipeline called repeatedly in one process: the state that *)
(* outlives a request is the module-level _cultivar_db; the weather service *)
(* and its climatology cache are constructed anew inside each request.      *)

\* calls served in one session
MaxCalls == 2

get_cultivar_databaseAlt(cultivar_db) ==
    IF cultivar_db = "None"
    THEN [returned |-> "None", cultivar_db |-> "loaded"]
    ELSE [returned |-> cultivar_db, cultivar_db |-> cultivar_db]

\* get_cultivar_database(): the lazy singleton; the value returned and the
\* new value of the global
get_cultivar_database(cultivar_db) ==
    IF cultivar_db = "None"
    THEN [returned |-> "loaded", cultivar_db |-> "loaded"]
    ELSE [returned |-> cultivar_db, cultivar_db |-> cultivar_db]

\* WeatherService(): a new provider with an empty climatology cache, a set
\* of <<cache_key, result>> pairs
WeatherService == [climatology_cache |-> {}]

\* get_climatology(location_id, month) on a cache; computed is the result
\* the archive yields when the key is not cached
get_climatology(climatology_cache, cache_key, computed) ==
    IF \E e \in climatology_cache : e[1] = cache_key
    THEN [result |-> (CHOOSE e \in climatology_cache : e[1] = cache_key)[2],
          climatology_cache |-> climatology_cache]
    ELSE [result |-> computed,
          climatology_cache |-> climatology_cache \cup {<<cache_key, computed>>}]

\* a session is followed on every SessionStride-th day
SessionStride == 61

SessionInit ==
    /\ pc = "fresh"
    /\ InitRequest
    /\ req.op \in {"predict", "predict_cultivar"}
    /\ (req.today - Jan1(FirstYear)) % SessionStride = 0
    /\ resp = [op |-> "session", cultivar_db |-> "None", outputs |-> <<>>]

\* one POST /predict served by the process
ServePredict ==
    /\ pc \in {"fresh", "served"} /\ req.op = "predict"
    /\ Len(resp.outputs) < MaxCalls
    /\ LET weather_service == WeatherService
           clim == get_climatology(weather_service.climatology_cache,
                                   <<req.region, MonthOf(req.today)>>,
                                   req.weather.clim10)
           out == predict([req EXCEPT !.weather.clim10 = clim.result])
       IN  resp' = [resp EXCEPT !.outputs = Append(@, out)]
    /\ pc' = "served"
    /\ UNCHANGED req

\* one POST /predict/cultivar served by the process
ServePredictCultivar ==
    /\ pc \in {"fresh", "served"} /\ req.op = "predict_cultivar"
    /\ Len(resp.outputs) < MaxCalls
    /\ LET db == get_cultivar_database(resp.cultivar_db)
           out == IF db.returned = "loaded" THEN predict_cultivar(req)
                  ELSE ErrorResponse("predict_cultivar", "database not loaded")
       IN  resp' = [resp EXCEPT !.cultivar_db = db.cultivar_db,
                                !.outputs = Append(@, out)]
    /\ pc' = "served"
    /\ UNCHANGED req

SessionNext ==
    \/ ServePredict
    \/ ServePredictCultivar

SessionSpec == SessionInit /\ [][SessionNext]_vars

-----------------------------------------------------------------------------
(* Properties of the pure functions, continued *)

\* C23: WeatherObservation.gdd, which the pipeline sums, equals the specified
\* daily formula max(0, (high + max(low, base))/2 - base), that is
\* calculate_daily_gdd without max_temp, for every (temp_high, temp_low,
\* base_temp).
C23_ObservationMatchesFormula ==
    (pc = "done" /\ resp.op = "WeatherObservation.gdd")
    => resp.gdd2 = calculate_daily_gdd(req.temp_high_f, req.temp_low_f,
                                       req.base_temp, NoMaxTemp)

\* C24: for every crop quality model and either cold-chain setting, one more
\* day since harvest never yields a higher freshness multiplier.
C24_FreshnessNonIncreasing ==
    FreshnessDone =>
        calculate_freshness_decay(req.model, req.days_since_harvest + 1, req.cold_chain)
            <= resp.multiplier

\* C25: predict_harvest_window returns a window whose peak lies inside it,
\* window_start <= peak_start <= peak_end <= window_end, for every current
\* cumulative GDD and every positive average daily GDD.
C25_PeakInsideWindow ==
    (pc = "done" /\ resp.op = "predict_harvest_window") =>
        /\ resp.window.window_start <= resp.window.peak_start
        /\ resp.window.peak_start <= resp.window.peak_end
        /\ resp.window.peak_end <= resp.window.window_end

-----------------------------------------------------------------------------
(* Properties of the handlers, continued *)

\* the plantings /predict rolled forward to the next season
RolledForward ==
    IF resp.op = "predict" /\ resp.error = ""
    THEN {p \in PlantingsOf : p.showing_next_season}
    ELSE {}

\* C26: when /predict rolls a prediction forward, the next-season reference
\* date is later than today and no more than 366 days after today.
C26_NextSeasonReference ==
    \A p \in RolledForward :
        /\ p.bloom_date > req.today
        /\ p.bloom_date - req.today <= 366

-----------------------------------------------------------------------------
(* Feedback loop (fielder/services/feedback_loop.py): a FeedbackCollector   *)
(* fed by add_feedback and queried through a PredictionCalibrator.  A mean  *)
(* is kept as the fraction num / den, a standard deviation as the fraction  *)
(* whose square root it is; confidence is in hundredths.                    *)

\* an Optional[date]: NoDate is None
NoDate == [given |-> FALSE, value |-> 0]
GivenDate(d) == [given |-> TRUE, value |-> d]

\* date.today() of the feedback loop
FeedbackToday == DateOf(FirstYear, 6, 1)

\* HarvestFeedback.harvest_date_error; given = FALSE is None
harvest_date_error(f) ==
    IF ~f.actual_harvest_date.given THEN [given |-> FALSE, value |-> 0]
    ELSE LET predicted_mid == f.predicted_peak_start
                                + (f.predicted_peak_end - f.predicted_peak_start) \div 2
         IN  [given |-> TRUE, value |-> f.actual_harvest_date.value - predicted_mid]

\* FeedbackCollector.get_feedback_for_region; cultivar_id "" and years 0 are
\* the falsy values that switch a filter off
get_feedback_for_region(feedback, region_id, cultivar_id, years) ==
    SelectSeq(feedback,
              LAMBDA f : /\ f.region_id = region_id
                         /\ cultivar_id # "" => f.cultivar_id = cultivar_id
                         /\ years # 0 => f.year >= YearOf(FeedbackToday) - years)

RECURSIVE SumSeq(_)
SumSeq(s) == IF s = <<>> THEN 0 ELSE Head(s) + SumSeq(Tail(s))

\* RegionalCalibration(region_id, cultivar_id): avg 0.0, std 7.0, no samples
RegionalCalibration ==
    [avg_date_error_days |-> [num |-> 0, den |-> 1],
     date_error_std |-> [num |-> 49, den |-> 1],
     sample_size_dates |-> 0]

\* FeedbackCollector._update_calibration: the calibrations after new_feedback
\* has been appended to feedback
update_calibration(feedback, calibrations, new_feedback) ==
    IF new_feedback.cultivar_id = "" THEN calibrations
    ELSE
    LET key == <<new_feedback.region_id, new_feedback.cultivar_id>>
        relevant == get_feedback_for_region(feedback, new_feedback.region_id,
                                            new_feedback.cultivar_id, 5)
        with_error == SelectSeq(relevant, LAMBDA f : harvest_date_error(f).given)
        date_errors == [i \in 1..Len(with_error) |-> harvest_date_error(with_error[i]).value]
        n == Len(date_errors)
        total == SumSeq(date_errors)
        squares == SumSeq([i \in 1..n |-> date_errors[i] * date_errors[i]])
        calibration ==
            IF n >= 2
            THEN [avg_date_error_days |-> [num |-> total, den |-> n],
                  date_error_std |-> [num |-> n * squares - total * total,
                                      den |-> n * (n - 1)],
                  sample_size_dates |-> n]
            ELSE RegionalCalibration
    IN  [k \in DOMAIN calibrations \cup {key} |->
            IF k = key THEN calibration ELSE calibrations[k]]

\* FeedbackCollector.add_feedback
add_feedback(collector, feedback) ==
    LET appended == Append(collector.feedback, feedback)
    IN  [feedback |-> appended,
         calibrations |-> update_calibration(appended, collector.calibrations, feedback)]

\* round(num / den) of Python: to nearest, ties to even
RoundHalfEven(num, den) ==
    LET q == num \div den
        r == num % den
    IN  IF 2 * r > den \/ (2 * r = den /\ q % 2 = 1) THEN q + 1 ELSE q

\* RegionalCalibration.date_adjustment
date_adjustmentAlt(calibration) ==
    IF calibration.sample_size_dates < 2 THEN 0
    ELSE RoundHalfEven(calibration.avg_date_error_days.num,
                       calibration.avg_date_error_days.den)

date_adjustment(calibration) ==
    IF calibration.sample_size_dates < 3 THEN 0
    ELSE RoundHalfEven(calibration.avg_date_error_days.num,
                       calibration.avg_date_error_days.den)

\* RegionalCalibration.confidence_boost, hundredths
confidence_boost(calibration) ==
    IF calibration.sample_size_dates >= 20 THEN 20
    ELSE IF calibration.sample_size_dates >= 10 THEN 15
    ELSE IF calibration.sample_size_dates >= 5 THEN 10
    ELSE IF calibration.sample_size_dates >= 3 THEN 5
    ELSE 0

\* PredictionCalibrator.calibrate_date_prediction
calibrate_date_prediction(collector, region_id, cultivar_id, predicted_date, base_confidence100) ==
    IF <<region_id, cultivar_id>> \notin DOMAIN collector.calibrations
    THEN [date |-> predicted_date, confidence100 |-> base_confidence100]
    ELSE LET calibration == collector.calibrations[<<region_id, cultivar_id>>]
         IN  [date |-> predicted_date + date_adjustment(calibration),
              confidence100 |-> Min2(95, base_confidence100 + confidence_boost(calibration))]

\* results of get_prediction_uncertainty are searched in 0..MaxUncertainty
MaxUncertainty == 120

\* int(offset / 2 + sqrt(std.num / std.den)) for offset >= 0: the largest r
\* with 2r - offset <= 2 * sqrt(num / den)
IntHalfPlusStd(offset, std) ==
    LET fits(r) == \/ 2 * r - offset <= 0
                   \/ (2 * r - offset) * (2 * r - offset) * std.den <= 4 * std.num
    IN  CHOOSE r \in 0..MaxUncertainty :
            fits(r) /\ (r = MaxUncertainty \/ ~fits(r + 1))

\* PredictionCalibrator.get_prediction_uncertainty
get_prediction_uncertainty(collector, region_id, cultivar_id, base_uncertainty_days) ==
    IF <<region_id, cultivar_id>> \notin DOMAIN collector.calibrations
    THEN base_uncertainty_days
    ELSE LET calibration == collector.calibrations[<<region_id, cultivar_id>>]
         IN  IF calibration.sample_size_dates < 5 THEN base_uncertainty_days
             ELSE IF calibration.sample_size_dates >= 10
             THEN IntHalfPlusStd(0, [num |-> 4 * calibration.date_error_std.num,
                                     den |-> calibration.date_error_std.den])
             ELSE IntHalfPlusStd(base_uncertainty_days, calibration.date_error_std)

\* a HarvestFeedback: predicted peak window of 20 days, harvest reported or not
HarvestFeedback(region_id, cultivar_id, year, actual) ==
    [region_id |-> region_id, cultivar_id |-> cultivar_id, year |-> year,
     predicted_peak_start |-> DateOf(FirstYear, 1, 1),
     predicted_peak_end |-> DateOf(FirstYear, 1, 21),
     actual_harvest_date |-> actual]

\* harvest 20 days after / before the middle of the predicted peak
LateHarvest == GivenDate(DateOf(FirstYear, 1, 31))
EarlyHarvest == GivenDate(DateOf(FirstYear - 1, 12, 22))

\* the feedback records add_feedback is called with
FeedbackInputs ==
    { HarvestFeedback("indian_river", "washington_navel", FirstYear, LateHarvest),
      HarvestFeedback("indian_river", "washington_navel", FirstYear, EarlyHarvest),
      HarvestFeedback("indian_river", "washington_navel", FirstYear, NoDate),
      HarvestFeedback("indian_river", "washington_navel", FirstYear - 6, LateHarvest),
      HarvestFeedback("indian_river", "hamlin", FirstYear, LateHarvest),
      HarvestFeedback("central_florida", "washington_navel", FirstYear, LateHarvest),
      HarvestFeedback("indian_river", "", FirstYear, LateHarvest) }

\* add_feedback calls made while the model watches
MaxAdds == 4
\* feedback a long-running collector already holds: SeedLen records whose
\* harvests were alternately late and early
SeedLen == 9
SeedFeedback ==
    [i \in 1..SeedLen |->
        HarvestFeedback("indian_river", "washington_navel", FirstYear - 1,
                        IF i % 2 = 1 THEN LateHarvest ELSE EarlyHarvest)]

\* FeedbackCollector(): no feedback, no calibrations
FeedbackCollector == [feedback |-> <<>>, calibrations |-> [k \in {} |-> RegionalCalibration]]

RECURSIVE AddAll(_, _)
AddAll(collector, feedbacks) ==
    IF feedbacks = <<>> THEN collector
    ELSE AddAll(add_feedback(collector, Head(feedbacks)), Tail(feedbacks))

FeedbackInit ==
    /\ pc = "collect"
    /\ req = [op |-> "none"]
    /\ \E seed \in {<<>>, SeedFeedback} :
          resp = [op |-> "none", collector |-> AddAll(FeedbackCollector, seed),
                  adds |-> 0]

AddFeedback ==
    /\ pc = "collect" /\ resp.adds < MaxAdds
    /\ \E f \in FeedbackInputs :
          /\ req' = [op |-> "add_feedback", feedback |-> f]
          /\ resp' = [op |-> "add_feedback",
                      collector |-> add_feedback(resp.collector, f),
                      adds |-> resp.adds + 1]
    /\ pc' = "collect"

CalibrateDatePrediction ==
    /\ pc = "collect"
    /\ \E c \in {"washington_navel", "hamlin"} :
          /\ req' = [op |-> "calibrate_date_prediction", region_id |-> "indian_river",
                     cultivar_id |-> c, predicted_date |-> DateOf(FirstYear, 12, 15),
                     base_confidence100 |-> 70]
          /\ resp' = [op |-> "calibrate_date_prediction",
                      collector |-> resp.collector, adds |-> resp.adds,
                      result |-> calibrate_date_prediction(
                                     resp.collector, "indian_river", c,
                                     DateOf(FirstYear, 12, 15), 70)]
    /\ pc' = "done"

GetPredictionUncertainty ==
    /\ pc = "collect"
    /\ \E b \in {7, 14} :
          /\ req' = [op |-> "get_prediction_uncertainty", region_id |-> "indian_river",
                     cultivar_id |-> "washington_navel", base_uncertainty_days |-> b]
          /\ resp' = [op |-> "get_prediction_uncertainty",
                      collector |-> resp.collector, adds |-> resp.adds,
                      result |-> get_prediction_uncertainty(
                                     resp.collector, "indian_river",
                                     "washington_navel", b)]
    /\ pc' = "done"

FeedbackNext ==
    \/ AddFeedback
    \/ CalibrateDatePrediction
    \/ GetPredictionUncertainty

FeedbackSpec == FeedbackInit /\ [][FeedbackNext]_vars

\* feedback records of the queried region and cultivar, within the last 5
\* years, whose harvest-date error can be computed
ComputableErrors ==
    { i \in 1..Len(resp.collector.feedback) :
        LET f == resp.collector.feedback[i]
        IN  /\ f.region_id = req.region_id /\ f.cultivar_id = req.cultivar_id
            /\ f.year >= YearOf(FeedbackToday) - 5
            /\ f.actual_harvest_date.given }

\* C27: after any sequence of add_feedback calls, calibrate_date_prediction
\* returns the predicted date unchanged unless at least 3 feedback records
\* with a computable harvest-date error exist for that region and cultivar
\* within the last 5 years.
C27_ShiftNeedsThreeRecords ==
    (pc = "done" /\ resp.op = "calibrate_date_prediction")
    => (resp.result.date # req.predicted_date => Cardinality(ComputableErrors) >= 3)

\* a date shifted by a calibration built from exactly three records
C27_Witness ==
    /\ pc = "done" /\ resp.op = "calibrate_date_prediction"
    /\ Cardinality(ComputableErrors) = 3
    /\ resp.result.date = req.predicted_date + 20

\* C28: for every calibration state, get_prediction_uncertainty returns at
\* most base_uncertainty_days.
C28_UncertaintyNarrows ==
    (pc = "done" /\ resp.op = "get_prediction_uncertainty")
    => resp.result <= req.base_uncertainty_days

\* C29: every PredictionRange produced by build_brix_prediction satisfies
\* low <= mid <= high, for all cultivar base values and modifier values,
\* including point estimates at or below zero.
C29_BrixRangeOrdered ==
    (pc = "done" /\ resp.op = "build_brix_prediction")
    => (resp.range.low <= resp.range.mid /\ resp.range.mid <= resp.range.high)

-----------------------------------------------------------------------------
(* Day-by-day GDD accumulation loops: predict_harvest_month_from_gdd and    *)
(* predict_harvest_window of data/research/gdd-harvest-predictor.py, and    *)
(* project_gdd_with_climatology of test_harvest_prediction.py.  One action  *)
(* per loop iteration; the locals of the running function are in resp.      *)

\* CROP_PHENOLOGY entries of the research script, and a crop whose window outlasts the safety limit
CropPhenology(bloom_month, bloom_day, gdd_to_maturity, gdd_to_peak, gdd_window) ==
    [bloom_month |-> bloom_month, bloom_day |-> bloom_day,
     gdd_to_maturity |-> gdd_to_maturity, gdd_to_peak |-> gdd_to_peak,
     gdd_window |-> gdd_window]

RESEARCH_PHENOLOGY ==
    [citrus_grapefruit_FL |-> CropPhenology(3, 1, 5500, 7100, 4400),
     strawberry_FL |-> CropPhenology(10, 1, 700, 1300, 1700),
     apple_MI |-> CropPhenology(5, 1, 2000, 2400, 800),
     long_season_MI |-> CropPhenology(11, 15, 6000, 9000, 9000)]

\* REGIONAL_GDD_RATES, Jan..Dec
REGIONAL_GDD_RATES ==
    [FL |-> <<15, 17, 20, 23, 25, 26, 26, 26, 25, 22, 18, 15>>,
     MI |-> <<0, 2, 6, 12, 18, 22, 25, 24, 18, 10, 4, 0>>,
     default |-> <<5, 7, 12, 16, 20, 24, 26, 25, 20, 14, 8, 5>>]

estimate_gdd_per_day(state, month) ==
    IF state \in DOMAIN REGIONAL_GDD_RATES
    THEN REGIONAL_GDD_RATES[state][month]
    ELSE REGIONAL_GDD_RATES["default"][month]

\* "Safety: don't go more than 18 months"
SafetyLimitReached(current_date, bloom_date) == current_date - bloom_date > 550

\* date.today() of the projection
ProjectToday == DateOf(FirstYear, 1, 1)
\* projections start up to MaxStartOffset days after today
MaxStartOffset == 62

\* climate.get("avg_temp", 70) for each month: a cold region, a region
\* whose provider gives no avg_temp, a region with seasons
Climatologies ==
    { [m \in 1..12 |-> 45],
      [m \in 1..12 |-> 70],
      [m \in 1..12 |-> IF m \in 5..9 THEN 75 ELSE 48] }

HarvestMonthCalls ==
    [fn : {"predict_harvest_month_from_gdd"},
     bloom_date : {DateOf(FirstYear + 1, 3, 15), DateOf(FirstYear + 1, 11, 15)},
     gdd_target : {0, 1500, 6000, 100000},
     state : {"FL", "MI", "ZZ"}]

HarvestWindowLoopCalls ==
    [fn : {"predict_harvest_window"},
     phenology : {"citrus_grapefruit_FL", "strawberry_FL", "apple_MI", "long_season_MI"},
     state : {"FL", "MI"},
     year : {FirstYear + 1}]

ProjectCalls ==
    [fn : {"project_gdd_with_climatology"},
     start_date : {ProjectToday - 30} \cup {ProjectToday + k : k \in 0..MaxStartOffset},
     observed_gdd : {0, 900},
     target_gdd : {800, 3000},
     base_temp : {50},
     climate : Climatologies]

LoopInit ==
    /\ pc = "entry"
    /\ resp = [op |-> "none"]
    /\ \/ req \in HarvestMonthCalls
       \/ req \in HarvestWindowLoopCalls
       \/ req \in ProjectCalls

\* predict_harvest_month_from_gdd -------------------------------------------

HarvestMonthEnter ==
    /\ pc = "entry" /\ req.fn = "predict_harvest_month_from_gdd"
    /\ resp' = [op |-> req.fn, accumulated_gdd |-> 0, current_date |-> req.bloom_date,
                broke |-> FALSE]
    /\ pc' = "accumulate"
    /\ UNCHANGED req

HarvestMonthIterate ==
    /\ pc = "accumulate" /\ req.fn = "predict_harvest_month_from_gdd"
    /\ ~resp.broke /\ resp.accumulated_gdd < req.gdd_target
    /\ LET daily_gdd == estimate_gdd_per_day(req.state, MonthOf(resp.current_date))
           current_date == resp.current_date + 1
       IN  resp' = [resp EXCEPT !.accumulated_gdd = @ + daily_gdd,
                                !.current_date = current_date,
                                !.broke = SafetyLimitReached(current_date, req.bloom_date)]
    /\ UNCHANGED <<pc, req>>

HarvestMonthReturn ==
    /\ pc = "accumulate" /\ req.fn = "predict_harvest_month_from_gdd"
    /\ resp.broke \/ ~(resp.accumulated_gdd < req.gdd_target)
    /\ resp' = [op |-> req.fn, accumulated_gdd |-> resp.accumulated_gdd,
                current_date |-> resp.current_date, broke |-> resp.broke,
                month |-> MonthOf(resp.current_date)]
    /\ pc' = "returned"
    /\ UNCHANGED req

\* predict_harvest_window ---------------------------------------------------

HarvestWindowEnter ==
    /\ pc = "entry" /\ req.fn = "predict_harvest_window"
    /\ LET phenology == RESEARCH_PHENOLOGY[req.phenology]
           bloom_date == DateOf(req.year, phenology.bloom_month, phenology.bloom_day)
       IN  resp' = [op |-> req.fn, bloom_date |-> bloom_date,
                    gdd_accumulated |-> 0, current_date |-> bloom_date,
                    maturity_date |-> NoDate, peak_date |-> NoDate,
                    window_end_date |-> NoDate, broke |-> FALSE,
                    current |-> NoDate, harvest_months |-> {}]
    /\ pc' = "accumulate"
    /\ UNCHANGED req

HarvestWindowIterate ==
    /\ pc = "accumulate" /\ req.fn = "predict_harvest_window"
    /\ LET phenology == RESEARCH_PHENOLOGY[req.phenology]
           gdd_window_end == phenology.gdd_to_maturity + phenology.gdd_window
           daily_gdd == estimate_gdd_per_day(req.state, MonthOf(resp.current_date))
           gdd_accumulated == resp.gdd_accumulated + daily_gdd
           reached(d, target) ==
               IF ~d.given /\ gdd_accumulated >= target
               THEN GivenDate(resp.current_date) ELSE d
           current_date == resp.current_date + 1
       IN  /\ ~resp.broke /\ resp.gdd_accumulated < gdd_window_end + 500
           /\ resp' = [resp EXCEPT
                  !.gdd_accumulated = gdd_accumulated,
                  !.maturity_date = reached(@, phenology.gdd_to_maturity),
                  !.peak_date = reached(@, phenology.gdd_to_peak),
                  !.window_end_date = reached(@, gdd_window_end),
                  !.current_date = current_date,
                  !.broke = SafetyLimitReached(current_date, resp.bloom_date)]
    /\ UNCHANGED <<pc, req>>

\* the accumulation loop is left; "Convert to harvest months" begins
HarvestWindowConvert ==
    /\ pc = "accumulate" /\ req.fn = "predict_harvest_window"
    /\ LET phenology == RESEARCH_PHENOLOGY[req.phenology]
           gdd_window_end == phenology.gdd_to_maturity + phenology.gdd_window
       IN  resp.broke \/ ~(resp.gdd_accumulated < gdd_window_end + 500)
    /\ resp' = [resp EXCEPT !.current =
                   IF resp.maturity_date.given /\ resp.window_end_date.given
                   THEN resp.maturity_date ELSE NoDate]
    /\ pc' = "sample"
    /\ UNCHANGED req

HarvestWindowSample ==
    /\ pc = "sample" /\ req.fn = "predict_harvest_window"
    /\ resp.current.given /\ resp.current.value <= resp.window_end_date.value
    /\ resp' = [resp EXCEPT
           !.harvest_months = @ \cup {MonthOf(resp.current.value)},
           !.current = GivenDate(resp.current.value + 15)]
    /\ UNCHANGED <<pc, req>>

HarvestWindowReturn ==
    /\ pc = "sample" /\ req.fn = "predict_harvest_window"
    /\ ~(resp.current.given /\ resp.current.value <= resp.window_end_date.value)
    /\ resp' = resp
    /\ pc' = "returned"
    /\ UNCHANGED req

\* project_gdd_with_climatology ---------------------------------------------

ProjectEnter ==
    /\ pc = "entry" /\ req.fn = "project_gdd_with_climatology"
    /\ LET past == req.start_date < ProjectToday
           accumulated_gdd == IF past THEN req.observed_gdd ELSE 0
           current_date == IF past THEN ProjectToday ELSE req.start_date
       IN  IF past /\ accumulated_gdd >= req.target_gdd
           THEN /\ resp' = [op |-> req.fn, accumulated_gdd |-> accumulated_gdd,
                            current_date |-> current_date, days_projected |-> 0,
                            projected_date |-> ProjectToday,
                            total_gdd |-> accumulated_gdd]
                /\ pc' = "returned"
           ELSE /\ resp' = [op |-> req.fn, accumulated_gdd |-> accumulated_gdd,
                            current_date |-> current_date, max_days |-> 365,
                            days_projected |-> 0]
                /\ pc' = "accumulate"
    /\ UNCHANGED req

ProjectIterate ==
    /\ pc = "accumulate" /\ req.fn = "project_gdd_with_climatology"
    /\ resp.accumulated_gdd < req.target_gdd /\ resp.days_projected < resp.max_days
    /\ LET month == MonthOf(resp.current_date)
           year == YearOf(resp.current_date)
           avg_temp == req.climate[month]
           avg_daily_gdd == Max2(0, avg_temp - req.base_temp)
           next_month_start == IF month = 12 THEN DateOf(year + 1, 1, 1)
                               ELSE DateOf(year, month + 1, 1)
           days_in_month == next_month_start - resp.current_date
           gdd_this_period == avg_daily_gdd * days_in_month
       IN  IF resp.accumulated_gdd + gdd_this_period >= req.target_gdd
           THEN LET gdd_needed == req.target_gdd - resp.accumulated_gdd
                    days_needed == IF avg_daily_gdd > 0
                                   THEN IntDiv(gdd_needed, avg_daily_gdd)
                                   ELSE days_in_month
                IN  /\ resp' = [op |-> req.fn,
                                accumulated_gdd |-> resp.accumulated_gdd,
                                current_date |-> resp.current_date,
                                days_projected |-> resp.days_projected,
                                projected_date |-> resp.current_date + days_needed,
                                total_gdd |-> req.target_gdd]
                    /\ pc' = "returned"
           ELSE /\ resp' = [resp EXCEPT
                       !.accumulated_gdd = @ + gdd_this_period,
                       !.days_projected = @ + days_in_month,
                       !.current_date = next_month_start]
                /\ pc' = pc
    /\ UNCHANGED req

ProjectReturn ==
    /\ pc = "accumulate" /\ req.fn = "project_gdd_with_climatology"
    /\ ~(resp.accumulated_gdd < req.target_gdd /\ resp.days_projected < resp.max_days)
    /\ resp' = [op |-> req.fn, accumulated_gdd |-> resp.accumulated_gdd,
                current_date |-> resp.current_date,
                days_projected |-> resp.days_projected,
                projected_date |-> resp.current_date,
                total_gdd |-> resp.accumulated_gdd]
    /\ pc' = "returned"
    /\ UNCHANGED req

LoopNext ==
    \/ HarvestMonthEnter
    \/ HarvestMonthIterate
    \/ HarvestMonthReturn
    \/ HarvestWindowEnter
    \/ HarvestWindowIterate
    \/ HarvestWindowConvert
    \/ HarvestWindowSample
    \/ HarvestWindowReturn
    \/ ProjectEnter
    \/ ProjectIterate
    \/ ProjectReturn

\* a called function keeps running until it returns
LoopSpec == LoopInit /\ [][LoopNext]_vars /\ WF_vars(LoopNext)

\* days the two bloom-date loops have simulated
SimulatedDays ==
    IF pc = "entry" \/ resp.op = "project_gdd_with_climatology" THEN 0
    ELSE IF resp.op = "predict_harvest_window" THEN resp.current_date - resp.bloom_date
    ELSE resp.current_date - req.bloom_date

\* days the climatology projection has projected
ProjectedDays ==
    IF pc # "entry" /\ resp.op = "project_gdd_with_climatology"
    THEN resp.days_projected ELSE 0

\* every call returns
LoopsTerminate == <>(pc = "returned")

\* the bloom-date loops stop on the day after the 550th
SimulatedDaysBounded == SimulatedDays <= 550 + 1

\* C30: the day-by-day GDD accumulation loops always terminate, after at
\* most about 550 simulated days (365 projected days for the climatology
\* projection), even when the daily GDD rate is zero and the target GDD is
\* never reached.
C30_LoopsTerminateWithinBounds ==
    /\ LoopsTerminate
    /\ [](SimulatedDaysBounded /\ ProjectedDays <= 365)

====
